---- MODULE Spec2Model ----
(***************************************************************************)
(* PayLog-AI: the transaction engine of src/main.py (class ExpenseTracker) *)
(* as a state machine over the two worksheets it owns.                     *)
(*                                                                         *)
(* transactions : the data rows of the 'transactions' worksheet, in order  *)
(* lending      : the data rows of the 'lending' worksheet, in order       *)
(* last         : the most recent tracker call, its arguments and what it  *)
(*                returned                                                 *)
(* tasks        : add_transaction calls in flight, each with its position  *)
(*                and the balances it read                                 *)
(* now          : datetime.now(): for the analytics a day number and       *)
(*                whether the time is exactly midnight, for the            *)
(*                preference document the second the clock shows           *)
(* history      : the transaction records handed to ExpenseAnalytics       *)
(* report       : the latest analytics, scoring or preference call and its *)
(*                result                                                   *)
(* ai           : the AI service: its keys, its active provider and the    *)
(*                latest parse call                                        *)
(* chat         : the latest message handled by the bot and what the       *)
(*                handler did                                              *)
(* prefs        : the user preference document                             *)
(*                                                                         *)
(* Both worksheets are connected (init_google_sheets succeeded) and the    *)
(* store answers every call.  Each tracker method runs to completion       *)
(* before the next one starts.  Amounts are whole currency units.  The     *)
(* columns date, description and merchant are written but never read by    *)
(* the methods modelled here and are left out of the rows.                 *)
(***************************************************************************)
EXTENDS Integers, Sequences, FiniteSets, TLC

VARIABLES transactions, lending, last, tasks, now, history, report, ai, chat,
          prefs

vars == <<transactions, lending, last, tasks, now, history, report, ai, chat,
          prefs>>

analyticsVars == <<now, history, report>>

\* the state outside the two worksheets and the record of the last call
notEngine == <<tasks, analyticsVars, ai, chat, prefs>>

\* the state outside the overlapping add_transaction calls
notRace == <<lending, analyticsVars, ai, chat, prefs>>

\* a clock reading: day is the day number, midnight tells whether the time
\* of day is exactly 00:00:00
Clock(day, midnight) == [day |-> day, midnight |-> midnight]

\* no analytics call has been made
NoReport == [fn |-> "none"]

\* the parts of the state a state machine does not use
AnalyticsIdle ==
    /\ now = Clock(1, TRUE)
    /\ history = <<>>
    /\ report = NoReport

AiIdle == ai = <<>>

ChatIdle == chat = <<>>

PrefsIdle == prefs = <<>>

(* ------------------------------ bounds -------------------------------- *)

\* most data rows the transactions worksheet holds in the model
MaxTx == 2
\* most data rows the lending worksheet holds in the model
MaxLoans == 2
\* largest amount of a transaction, transfer or loan
MaxAmount == 2

(* ------------------------------ inputs -------------------------------- *)

Wallets == {"total", "wallet"}
\* wallet names a caller can pass; "cash" stands for any name that is
\* neither 'total' nor 'wallet'
WalletNames == Wallets \cup {"cash"}
TransactionTypes == {"add", "subtract"}
\* names loans are recorded under, and names repayments are made under
LendPersons == {"Amit", "Bob"}
ReturnPersons == {"amit", "Bob"}
\* the wallet a repayment goes to: both callers pass 'wallet'
ReturnTargets == {"wallet"}
\* amounts a caller passes to add_transaction and transfer_between_wallets
Amounts == 1 .. MaxAmount
\* amounts of loans: add_lending under the contract amount > 0
LoanAmounts == 1 .. MaxAmount
\* amounts of repayments, up to more than any one loan
RepayAmounts == 0 .. (MaxAmount + 1)

\* str.lower() on the person names of the model
Lower(p) == IF p = "Amit" THEN "amit" ELSE IF p = "Bob" THEN "bob" ELSE p

(* --------------------------- ledger: reads ---------------------------- *)

\* get_current_balances: the checkpoint of the last row, (0, 0) when empty
get_current_balances(txs) ==
    IF Len(txs) > 0
    THEN <<txs[Len(txs)].balance_total, txs[Len(txs)].balance_wallet>>
    ELSE <<0, 0>>

(* ------------------------ ledger: add_transaction --------------------- *)

\* NewBalances with "elif wallet_type == 'wallet'" written as a bare else
NewBalances_AnyWallet(bal, transaction_type, wallet_type, amount) ==
    IF wallet_type = "total"
    THEN IF transaction_type = "add"
         THEN <<bal[1] + amount, bal[2]>>
         ELSE <<bal[1] - amount, bal[2]>>
    ELSE IF transaction_type = "add"
         THEN <<bal[1], bal[2] + amount>>
         ELSE <<bal[1], bal[2] - amount>>

\* NewBalances with the wallet's subtract branch updating the total stack
NewBalances_WrongBalance(bal, transaction_type, wallet_type, amount) ==
    IF wallet_type = "total"
    THEN IF transaction_type = "add"
         THEN <<bal[1] + amount, bal[2]>>
         ELSE <<bal[1] - amount, bal[2]>>
    ELSE IF wallet_type = "wallet"
         THEN IF transaction_type = "add"
              THEN <<bal[1], bal[2] + amount>>
              ELSE <<bal[1] - amount, bal[2]>>
         ELSE bal

\* the two balances after add_transaction's if/elif on wallet_type
NewBalances(bal, transaction_type, wallet_type, amount) ==
    IF wallet_type = "total"
    THEN IF transaction_type = "add"
         THEN <<bal[1] + amount, bal[2]>>
         ELSE <<bal[1] - amount, bal[2]>>
    ELSE IF wallet_type = "wallet"
         THEN IF transaction_type = "add"
              THEN <<bal[1], bal[2] + amount>>
              ELSE <<bal[1], bal[2] - amount>>
         ELSE bal

\* row_data of add_transaction
TransactionRow(txs, transaction_type, wallet_type, amount, category) ==
    LET nb == NewBalances(get_current_balances(txs), transaction_type,
                          wallet_type, amount)
    IN  [type           |-> transaction_type,
         wallet_type    |-> wallet_type,
         amount         |-> amount,
         balance_total  |-> nb[1],
         balance_wallet |-> nb[2],
         category       |-> category]

\* the worksheet after add_transaction's append_row
add_transaction(txs, transaction_type, wallet_type, amount, category) ==
    Append(txs, TransactionRow(txs, transaction_type, wallet_type, amount, category))

\* the record of a call: every field is present for every operation
Call(op, kind, wallet, to, person, amount, ok, msg, applied, bal) ==
    [op |-> op, kind |-> kind, wallet |-> wallet, to |-> to, person |-> person,
     amount |-> amount, ok |-> ok, msg |-> msg, applied |-> applied,
     ret_total |-> bal[1], ret_wallet |-> bal[2]]

AddTransaction ==
    /\ Len(transactions) < MaxTx
    /\ \E transaction_type \in TransactionTypes, wallet_type \in WalletNames,
          amount \in Amounts :
          /\ transactions' = add_transaction(transactions, transaction_type,
                                             wallet_type, amount, "manual")
          /\ last' = Call("add_transaction", transaction_type, wallet_type, "",
                          "", amount, TRUE, "", 0,
                          get_current_balances(transactions'))
    /\ UNCHANGED <<lending, notEngine>>

(* -------------------- ledger: transfer_between_wallets ---------------- *)

\* TransferOutcome with the wallet-to-total guard testing the total stack
TransferOutcome_WrongGuard(bal, from_wallet, to_wallet, amount) ==
    IF from_wallet = "total" /\ to_wallet = "wallet"
    THEN IF bal[1] < amount
         THEN [ok |-> FALSE, msg |-> "Insufficient balance in Total Stack",
               bal |-> <<0, 0>>]
         ELSE [ok |-> TRUE, msg |-> "Transfer successful",
               bal |-> <<bal[1] - amount, bal[2] + amount>>]
    ELSE IF from_wallet = "wallet" /\ to_wallet = "total"
         THEN IF bal[1] < amount
              THEN [ok |-> FALSE, msg |-> "Insufficient balance in Wallet",
                    bal |-> <<0, 0>>]
              ELSE [ok |-> TRUE, msg |-> "Transfer successful",
                    bal |-> <<bal[1] + amount, bal[2] - amount>>]
         ELSE [ok |-> FALSE, msg |-> "Invalid transfer", bal |-> <<0, 0>>]

\* what transfer_between_wallets decides from the balances it read: whether
\* it goes through, its message and the balances it returns
TransferOutcome(bal, from_wallet, to_wallet, amount) ==
    IF from_wallet = "total" /\ to_wallet = "wallet"
    THEN IF bal[1] < amount
         THEN [ok |-> FALSE, msg |-> "Insufficient balance in Total Stack",
               bal |-> <<0, 0>>]
         ELSE [ok |-> TRUE, msg |-> "Transfer successful",
               bal |-> <<bal[1] - amount, bal[2] + amount>>]
    ELSE IF from_wallet = "wallet" /\ to_wallet = "total"
         THEN IF bal[2] < amount
              THEN [ok |-> FALSE, msg |-> "Insufficient balance in Wallet",
                    bal |-> <<0, 0>>]
              ELSE [ok |-> TRUE, msg |-> "Transfer successful",
                    bal |-> <<bal[1] + amount, bal[2] - amount>>]
         ELSE [ok |-> FALSE, msg |-> "Invalid transfer", bal |-> <<0, 0>>]

\* f"{from_wallet}_to_{to_wallet}" for the two directions that can succeed
TransferTag(from_wallet, to_wallet) ==
    IF from_wallet = "total" THEN "total_to_wallet" ELSE "wallet_to_total"

\* TransferRow with the two balance columns in the wrong order
TransferRow_SwappedColumns(from_wallet, to_wallet, amount, bal) ==
    [type           |-> "transfer",
     wallet_type    |-> TransferTag(from_wallet, to_wallet),
     amount         |-> amount,
     balance_total  |-> bal[2],
     balance_wallet |-> bal[1],
     category       |-> "transfer"]

\* row_data of transfer_between_wallets
TransferRow(from_wallet, to_wallet, amount, bal) ==
    [type           |-> "transfer",
     wallet_type    |-> TransferTag(from_wallet, to_wallet),
     amount         |-> amount,
     balance_total  |-> bal[1],
     balance_wallet |-> bal[2],
     category       |-> "transfer"]

TransferBetweenWallets ==
    /\ \E from_wallet \in WalletNames, to_wallet \in WalletNames,
          amount \in Amounts :
          LET out == TransferOutcome(get_current_balances(transactions),
                                     from_wallet, to_wallet, amount)
          IN  /\ IF out.ok
                 THEN /\ Len(transactions) < MaxTx
                      /\ transactions' =
                            Append(transactions,
                                   TransferRow(from_wallet, to_wallet, amount, out.bal))
                 ELSE UNCHANGED transactions
              /\ last' = Call("transfer_between_wallets", "", from_wallet,
                              to_wallet, "", amount, out.ok, out.msg, 0, out.bal)
    /\ UNCHANGED <<lending, notEngine>>

(* ---------------------- ledger: undo_last_transaction ----------------- *)

\* UndoLastTransaction deleting the first data row instead of the last
UndoLastTransaction_RemovesFirst ==
    /\ IF Len(transactions) < 1
       THEN /\ UNCHANGED transactions
            /\ last' = Call("undo_last_transaction", "", "", "", "", 0, FALSE,
                            "No transactions to undo", 0, <<0, 0>>)
       ELSE /\ transactions' = SubSeq(transactions, 2, Len(transactions))
            /\ last' = Call("undo_last_transaction", "", "", "", "", 0, TRUE,
                            "Last transaction undone successfully", 0, <<0, 0>>)
    /\ UNCHANGED <<lending, notEngine>>

UndoLastTransaction ==
    /\ IF Len(transactions) < 1
       THEN /\ UNCHANGED transactions
            /\ last' = Call("undo_last_transaction", "", "", "", "", 0, FALSE,
                            "No transactions to undo", 0, <<0, 0>>)
       ELSE /\ transactions' = SubSeq(transactions, 1, Len(transactions) - 1)
            /\ last' = Call("undo_last_transaction", "", "", "", "", 0, TRUE,
                            "Last transaction undone successfully", 0, <<0, 0>>)
    /\ UNCHANGED <<lending, notEngine>>

(* --------------------------- lending: add_lending --------------------- *)

\* row_data of add_lending
LendingRow(person, amount) ==
    [person      |-> person,
     amount      |-> amount,
     status      |-> "lent",
     return_date |-> "",
     return_to   |-> "",
     remaining   |-> amount]

AddLending ==
    /\ Len(lending) < MaxLoans
    /\ \E person \in LendPersons, amount \in LoanAmounts :
          /\ lending' = Append(lending, LendingRow(person, amount))
          /\ last' = Call("add_lending", "", "", "", person, amount, TRUE, "",
                          0, <<0, 0>>)
    /\ UNCHANGED <<transactions, notEngine>>

(* -------------------------- lending: return_lending ------------------- *)

\* the rows return_lending's loop applies a repayment to
Repayable(record, person) ==
    /\ Lower(record.person) = Lower(person)
    /\ record.status = "lent"

\* FullPayment with > for >=: an exact repayment takes the partial branch
FullPayment_Strict(remaining_to_apply, current_remaining) ==
    remaining_to_apply > current_remaining

\* "if remaining_to_apply >= current_remaining": the repayment covers the row
FullPayment(remaining_to_apply, current_remaining) ==
    remaining_to_apply >= current_remaining

\* SomeApplied that reports success only once the whole repayment is used up
SomeApplied_OnlyWhenExhausted(remaining_to_apply, amount) ==
    remaining_to_apply <= 0 /\ amount > 0

\* "if remaining_to_apply < amount": some money was applied
SomeApplied(remaining_to_apply, amount) ==
    remaining_to_apply < amount

\* CloseRow without update_cell(row_num, 8, 0)
CloseRow_KeepsRemaining(record, return_to) ==
    [record EXCEPT !.status = "returned", !.return_date = "today",
                   !.return_to = return_to]

\* the four update_cell calls of the full-payment branch
CloseRow(record, return_to) ==
    [record EXCEPT !.status = "returned", !.return_date = "today",
                   !.return_to = return_to, !.remaining = 0]

\* the two update_cell calls of the partial-payment branch
ReduceRow(record, remaining_to_apply) ==
    [record EXCEPT !.status = "partial",
                   !.remaining = record.remaining - remaining_to_apply]

RECURSIVE Allocate(_, _, _, _, _)
\* return_lending's loop from row i on: the rows once it ends and the part of
\* the repayment that is left over
Allocate(records, i, remaining_to_apply, person, return_to) ==
    IF i > Len(records) \/ remaining_to_apply <= 0
    THEN [records |-> records, remaining_to_apply |-> remaining_to_apply]
    ELSE IF Repayable(records[i], person)
         THEN IF FullPayment(remaining_to_apply, records[i].remaining)
              THEN Allocate([records EXCEPT ![i] = CloseRow(@, return_to)],
                            i + 1, remaining_to_apply - records[i].remaining,
                            person, return_to)
              ELSE Allocate([records EXCEPT ![i] = ReduceRow(@, remaining_to_apply)],
                            i + 1, 0, person, return_to)
         ELSE Allocate(records, i + 1, remaining_to_apply, person, return_to)

ReturnLending ==
    /\ UNCHANGED notEngine
    /\ \E person \in ReturnPersons, amount \in RepayAmounts, return_to \in ReturnTargets :
        LET out == Allocate(lending, 1, amount, person, return_to)
            applied == amount - out.remaining_to_apply
        IN  /\ lending' = out.records
            /\ IF SomeApplied(out.remaining_to_apply, amount)
               THEN /\ Len(transactions) < MaxTx
                    /\ transactions' = add_transaction(transactions, "add",
                                                       return_to, applied, "lending")
                    /\ last' = Call("return_lending", "", "", return_to, person,
                                    amount, TRUE, "applied to loans", applied,
                                    <<0, 0>>)
               ELSE /\ UNCHANGED transactions
                    /\ last' = Call("return_lending", "", "", return_to, person,
                                    amount, FALSE, "No pending loans found", 0,
                                    <<0, 0>>)

\* get_pending_lending_for_person: what the person still owes
RECURSIVE PendingFrom(_, _, _)
PendingFrom(records, i, person) ==
    IF i > Len(records)
    THEN 0
    ELSE (IF Lower(records[i].person) = Lower(person)
             /\ records[i].status \in {"lent", "partial"}
          THEN records[i].remaining
          ELSE 0) + PendingFrom(records, i + 1, person)

get_pending_lending_for_person(records, person) == PendingFrom(records, 1, person)

(* --------------------------- the state machines ----------------------- *)

NoCall == Call("init", "", "", "", "", 0, TRUE, "", 0, <<0, 0>>)

\* The ledger: an empty transactions worksheet and any sequence of
\* add_transaction, transfer_between_wallets and undo_last_transaction.
Init ==
    /\ transactions = <<>>
    /\ lending = <<>>
    /\ last = NoCall
    /\ tasks = <<>>
    /\ AnalyticsIdle
    /\ AiIdle
    /\ ChatIdle
    /\ PrefsIdle

Next ==
    \/ AddTransaction
    \/ TransferBetweenWallets
    \/ UndoLastTransaction

Spec == Init /\ [][Next]_vars

\* Lending: an empty lending worksheet and any sequence of add_lending and
\* return_lending; repayments append to the transactions worksheet.
InitLending ==
    /\ transactions = <<>>
    /\ lending = <<>>
    /\ last = NoCall
    /\ tasks = <<>>
    /\ AnalyticsIdle
    /\ AiIdle
    /\ ChatIdle
    /\ PrefsIdle

NextLending ==
    \/ AddLending
    \/ ReturnLending

SpecLending == InitLending /\ [][NextLending]_vars

(* ============================ the ledger ============================== *)

\* the signed change a row makes to (total stack, wallet), read off its
\* type, wallet_type and amount columns
Delta(row) ==
    IF row.type = "transfer"
    THEN IF row.wallet_type = "total_to_wallet"
         THEN <<0 - row.amount, row.amount>>
         ELSE <<row.amount, 0 - row.amount>>
    ELSE LET signed == IF row.type = "add" THEN row.amount ELSE 0 - row.amount
         IN  IF row.wallet_type = "total" THEN <<signed, 0>>
             ELSE IF row.wallet_type = "wallet" THEN <<0, signed>>
             ELSE <<0, 0>>

RECURSIVE Replay(_, _)
\* the fold from (0, 0) of the deltas of the first n rows
Replay(txs, n) ==
    IF n = 0
    THEN <<0, 0>>
    ELSE LET before == Replay(txs, n - 1)
             d == Delta(txs[n])
         IN  <<before[1] + d[1], before[2] + d[2]>>

\* C1: in every ledger reached by add_transaction, transfer_between_wallets
\* and undo_last_transaction from the empty ledger, each row's balance_total
\* and balance_wallet equal the fold from (0, 0) of the signed deltas of the
\* rows up to and including it, so the last row is the current balance.
BalanceReplay ==
    /\ \A n \in 1 .. Len(transactions) :
          <<transactions[n].balance_total, transactions[n].balance_wallet>>
            = Replay(transactions, n)
    /\ get_current_balances(transactions) = Replay(transactions, Len(transactions))

\* a transfer has just moved money onto a ledger that holds both balances
BalanceReplayWitness ==
    /\ last.op = "transfer_between_wallets"
    /\ last.ok
    /\ Len(transactions) = MaxTx
    /\ transactions[Len(transactions)].balance_total > 0
    /\ transactions[Len(transactions)].balance_wallet > 0

\* the step appended exactly one row to the transactions worksheet
AppendedOneRow ==
    /\ Len(transactions') = Len(transactions) + 1
    /\ SubSeq(transactions', 1, Len(transactions)) = transactions

\* C8: add_transaction with wallet_type total or wallet and amount > 0
\* appends exactly one row; the named balance moves by +amount (add) or
\* -amount (subtract) from the last checkpoint, (0, 0) on an empty ledger;
\* the other balance is unchanged; the row carries the new checkpoint and
\* the call returns it; a subtract goes through whatever the balance.
AddTransactionEffect ==
    [][(last'.op = "add_transaction" /\ last'.wallet \in Wallets
          /\ last'.amount > 0)
       => LET before == IF Len(transactions) = 0
                        THEN <<0, 0>>
                        ELSE <<transactions[Len(transactions)].balance_total,
                               transactions[Len(transactions)].balance_wallet>>
              row == transactions'[Len(transactions')]
              signed == IF last'.kind = "add"
                        THEN last'.amount ELSE 0 - last'.amount
          IN  /\ AppendedOneRow
              /\ last'.ok
              /\ row.type = last'.kind
              /\ row.wallet_type = last'.wallet
              /\ row.amount = last'.amount
              /\ last'.wallet = "total" =>
                    /\ row.balance_total = before[1] + signed
                    /\ row.balance_wallet = before[2]
              /\ last'.wallet = "wallet" =>
                    /\ row.balance_total = before[1]
                    /\ row.balance_wallet = before[2] + signed
              /\ last'.ret_total = row.balance_total
              /\ last'.ret_wallet = row.balance_wallet]_vars

\* a subtract from the wallet has left it overdrawn
AddTransactionWitness ==
    /\ last.op = "add_transaction"
    /\ last.kind = "subtract"
    /\ last.wallet = "wallet"
    /\ last.amount > 0
    /\ Len(transactions) = MaxTx
    /\ transactions[Len(transactions)].balance_wallet < 0
    /\ transactions[Len(transactions)].balance_total > 0

\* C9: transfer_between_wallets fails when the source balance is below the
\* amount, and fails when from = to or a name is neither total nor wallet;
\* a failing transfer appends no row and leaves the balances as they were.
TransferGuard ==
    [][last'.op = "transfer_between_wallets"
       => LET before == get_current_balances(transactions)
              source == IF last'.wallet = "total" THEN before[1] ELSE before[2]
              invalid == \/ last'.wallet = last'.to
                         \/ last'.wallet \notin Wallets
                         \/ last'.to \notin Wallets
          IN  /\ invalid => (~last'.ok /\ last'.msg = "Invalid transfer")
              /\ (~invalid /\ source < last'.amount) =>
                    /\ ~last'.ok
                    /\ last'.msg \in {"Insufficient balance in Total Stack",
                                      "Insufficient balance in Wallet"}
              /\ ~last'.ok =>
                    /\ transactions' = transactions
                    /\ get_current_balances(transactions') = before]_vars

\* a transfer of one more than the wallet holds has been refused
TransferGuardWitness ==
    /\ last.op = "transfer_between_wallets"
    /\ ~last.ok
    /\ last.wallet = "wallet"
    /\ last.to = "total"
    /\ Len(transactions) > 0
    /\ get_current_balances(transactions)[2] > 0
    /\ last.amount = get_current_balances(transactions)[2] + 1

\* C10: a successful transfer_between_wallets with amount > 0 appends
\* exactly one row with type transfer, wallet_type "<from>_to_<to>" and
\* category transfer; the source balance falls by amount, the destination
\* rises by amount, their sum is unchanged and the source is not negative.
TransferEffect ==
    [][(last'.op = "transfer_between_wallets" /\ last'.ok /\ last'.amount > 0)
       => LET before == get_current_balances(transactions)
              row == transactions'[Len(transactions')]
              toWallet == last'.wallet = "total" /\ last'.to = "wallet"
              toTotal == last'.wallet = "wallet" /\ last'.to = "total"
          IN  /\ AppendedOneRow
              /\ row.type = "transfer"
              /\ row.category = "transfer"
              /\ row.amount = last'.amount
              /\ toWallet \/ toTotal
              /\ toWallet =>
                    /\ row.wallet_type = "total_to_wallet"
                    /\ row.balance_total = before[1] - last'.amount
                    /\ row.balance_wallet = before[2] + last'.amount
                    /\ row.balance_total >= 0
              /\ toTotal =>
                    /\ row.wallet_type = "wallet_to_total"
                    /\ row.balance_wallet = before[2] - last'.amount
                    /\ row.balance_total = before[1] + last'.amount
                    /\ row.balance_wallet >= 0
              /\ row.balance_total + row.balance_wallet = before[1] + before[2]
              /\ last'.ret_total = row.balance_total
              /\ last'.ret_wallet = row.balance_wallet]_vars

\* a transfer has emptied the wallet into the total stack
TransferEffectWitness ==
    /\ last.op = "transfer_between_wallets"
    /\ last.ok
    /\ last.amount > 0
    /\ last.wallet = "wallet"
    /\ last.to = "total"
    /\ transactions[Len(transactions)].type = "transfer"
    /\ transactions[Len(transactions)].balance_wallet = 0
    /\ transactions[Len(transactions)].balance_total = last.amount

(* ============================= lending ================================ *)

\* the rows of a person, by case-insensitive name
RowsOf(records, person) ==
    {i \in 1 .. Len(records) : Lower(records[i].person) = Lower(person)}

RECURSIVE SumOver(_, _, _)
\* the sum of column col ("amount" or "remaining") over the rows in a set
SumOver(records, rows, col) ==
    IF rows = {}
    THEN 0
    ELSE LET i == CHOOSE r \in rows : TRUE
         IN  (IF col = "amount" THEN records[i].amount ELSE records[i].remaining)
               + SumOver(records, rows \ {i}, col)

\* what a return_lending call applied: the amount it reports on success
Applied(call) == IF call.ok THEN call.applied ELSE 0

\* C2: a repayment with amount > 0 from a person whose
\* get_pending_lending_for_person is above 0 (rows in status lent or
\* partial) succeeds and lowers that outstanding balance.
RepaymentReachesOutstandingRows ==
    [][(last'.op = "return_lending" /\ last'.amount > 0
          /\ get_pending_lending_for_person(lending, last'.person) > 0)
       => /\ last'.ok
          /\ get_pending_lending_for_person(lending', last'.person)
               < get_pending_lending_for_person(lending, last'.person)]_vars

\* C3: return_lending pays a row only if every earlier outstanding row of
\* the person (status lent or partial) ends the call returned with
\* remaining 0; at most one row ends the call partially paid; with two lent
\* rows a1, a2 and a repayment r, a1 < r < a1 + a2 (100, 200 and 150), the
\* first ends returned with remaining 0 and the second partial with
\* remaining a1 + a2 - r.
OldestFirstAllocation ==
    [][last'.op = "return_lending"
       => LET mine == RowsOf(lending, last'.person)
              paid == {i \in mine : lending'[i].remaining < lending[i].remaining}
          IN  /\ \A j \in paid : \A i \in mine :
                    (i < j /\ lending[i].status \in {"lent", "partial"})
                    => (lending'[i].status = "returned" /\ lending'[i].remaining = 0)
              /\ Cardinality({i \in paid : lending'[i].status = "partial"}) <= 1
              /\ (/\ mine = {1, 2}
                  /\ lending[1].status = "lent"
                  /\ lending[2].status = "lent"
                  /\ lending[1].amount < last'.amount
                  /\ last'.amount < lending[1].amount + lending[2].amount)
                 => /\ lending'[1].status = "returned"
                    /\ lending'[1].remaining = 0
                    /\ lending'[2].status = "partial"
                    /\ lending'[2].remaining =
                         lending[1].amount + lending[2].amount - last'.amount]_vars

RepaymentCredit ==
    [][last'.op = "return_lending"
       => LET before == get_pending_lending_for_person(lending, last'.person)
              after == get_pending_lending_for_person(lending', last'.person)
              bal == get_current_balances(transactions)
              row == transactions'[Len(transactions')]
          IN  /\ last'.ok =>
                    /\ AppendedOneRow
                    /\ row.type = "add"
                    /\ row.category = "lending"
                    /\ row.wallet_type = last'.to
                    /\ row.amount = before - after
                    /\ last'.to = "wallet" =>
                          /\ row.balance_wallet = bal[2] + (before - after)
                          /\ row.balance_total = bal[1]
                    /\ last'.to = "total" =>
                          /\ row.balance_total = bal[1] + (before - after)
                          /\ row.balance_wallet = bal[2]
              /\ (before > 0 /\ last'.amount > before) =>
                    /\ last'.ok
                    /\ after = 0
                    /\ row.amount = before]_vars

Tasks == {"a", "b"}

\* a caller outside add_transaction
IdleTask ==
    [pc |-> "idle", transaction_type |-> "", wallet_type |-> "", amount |-> 0,
     total_balance |-> 0, wallet_balance |-> 0, seen |-> 0, row |-> 0]

\* CheckpointUsed re-reading the worksheet at the moment of the append
CheckpointUsed_Fresh(txs, task) == get_current_balances(txs)

\* the balances add_transaction applies its change to when it appends: the
\* locals total_balance and wallet_balance it read on entry, whatever the
\* worksheet txs holds by now
CheckpointUsed(txs, task) == <<task.total_balance, task.wallet_balance>>

\* add_transaction up to its read of the last checkpoint; seen is the number
\* of rows the worksheet held at that read
BeginAddTransaction(t) ==
    /\ tasks[t].pc \in {"idle", "done"}
    /\ Len(transactions) + Cardinality({u \in Tasks : tasks[u].pc = "read"}) < MaxTx
    /\ \E transaction_type \in TransactionTypes, wallet_type \in WalletNames,
          amount \in Amounts :
          LET bal == get_current_balances(transactions)
          IN  tasks' = [tasks EXCEPT ![t] =
                           [pc               |-> "read",
                            transaction_type |-> transaction_type,
                            wallet_type      |-> wallet_type,
                            amount           |-> amount,
                            total_balance    |-> bal[1],
                            wallet_balance   |-> bal[2],
                            seen             |-> Len(transactions),
                            row              |-> 0]]
    /\ UNCHANGED <<transactions, last, notRace>>

\* the rest of add_transaction: the change applied to the balances read
\* earlier, the row appended, the new balances returned; row is the place of
\* the appended row
FinishAddTransaction(t) ==
    /\ tasks[t].pc = "read"
    /\ LET task == tasks[t]
           nb == NewBalances(CheckpointUsed(transactions, task),
                             task.transaction_type, task.wallet_type, task.amount)
       IN  /\ transactions' = Append(transactions,
                                  [type           |-> task.transaction_type,
                                   wallet_type    |-> task.wallet_type,
                                   amount         |-> task.amount,
                                   balance_total  |-> nb[1],
                                   balance_wallet |-> nb[2],
                                   category       |-> "manual"])
           /\ last' = Call("add_transaction", task.transaction_type,
                           task.wallet_type, "", "", task.amount, TRUE, "", 0, nb)
           /\ tasks' = [tasks EXCEPT ![t].pc = "done",
                                     ![t].row = Len(transactions) + 1]
    /\ UNCHANGED notRace

\* Two callers of add_transaction whose reads and appends interleave freely
\* on one transactions worksheet.
InitRace ==
    /\ transactions = <<>>
    /\ lending = <<>>
    /\ last = NoCall
    /\ tasks = [t \in Tasks |-> IdleTask]
    /\ AnalyticsIdle
    /\ AiIdle
    /\ ChatIdle
    /\ PrefsIdle

NextRace ==
    \E t \in Tasks :
        \/ BeginAddTransaction(t)
        \/ FinishAddTransaction(t)

SpecRace == InitRace /\ [][NextRace]_vars

\* the checkpoint stored in row n, (0, 0) before the first row
StoredCheckpoint(txs, n) ==
    IF n = 0 THEN <<0, 0>> ELSE <<txs[n].balance_total, txs[n].balance_wallet>>

\* C11: add_transaction calls are not serialized. When two calls both read
\* the last checkpoint before either appends, the final row's checkpoint is
\* the checkpoint both read plus the change of the later appender alone; the
\* earlier appender's change is lost, and when that change is not zero and
\* the two rows follow a ledger that replays, the final row no longer equals
\* the replay of the ledger.
LostUpdate ==
    \A t \in Tasks, u \in Tasks :
        (/\ t # u
         /\ tasks[t].pc = "done"
         /\ tasks[u].pc = "done"
         /\ tasks[t].seen = tasks[u].seen
         /\ tasks[t].row < tasks[u].row
         /\ tasks[u].row = Len(transactions))
        => LET base == StoredCheckpoint(transactions, tasks[u].seen)
               final == StoredCheckpoint(transactions, Len(transactions))
               dt == Delta(transactions[tasks[t].row])
               du == Delta(transactions[tasks[u].row])
           IN  /\ final = <<base[1] + du[1], base[2] + du[2]>>
               /\ (/\ dt # <<0, 0>>
                   /\ tasks[t].row = tasks[u].seen + 1
                   /\ tasks[u].row = tasks[u].seen + 2
                   /\ base = Replay(transactions, tasks[u].seen))
                  => /\ final # <<base[1] + dt[1] + du[1], base[2] + dt[2] + du[2]>>
                     /\ final # Replay(transactions, Len(transactions))

\* both callers read the empty ledger, then one added to the wallet and the
\* other added to the total stack, and the last row shows no wallet money
LostUpdateWitness ==
    /\ tasks["a"].pc = "done"
    /\ tasks["b"].pc = "done"
    /\ tasks["a"].seen = tasks["b"].seen
    /\ tasks["a"].row = tasks["a"].seen + 1
    /\ tasks["b"].row = Len(transactions)
    /\ tasks["a"].transaction_type = "add"
    /\ tasks["a"].wallet_type = "wallet"
    /\ tasks["b"].transaction_type = "add"
    /\ tasks["b"].wallet_type = "total"
    /\ transactions[Len(transactions)].balance_wallet = 0
    /\ ~BalanceReplay

(* ============================ analytics =============================== *)

(* ------------------------ dates, cells and sums ----------------------- *)

\* the calendar: day 1 is the 1st of July; the months run to the January of
\* the next year (calendar.monthrange)
MonthLengths == <<31, 31, 30, 31, 30, 31, 31>>

RECURSIVE MonthFirstDay(_)
\* the day number of the first day of month m
MonthFirstDay(m) == IF m = 1 THEN 1 ELSE MonthFirstDay(m - 1) + MonthLengths[m - 1]

\* the month of the model's calendar a day falls in, 1 for the July
MonthOf(day) ==
    CHOOSE m \in 1 .. Len(MonthLengths) :
        MonthFirstDay(m) <= day /\ day < MonthFirstDay(m) + MonthLengths[m]

\* now.month: 7 for the July, 12 for the December, 1 for the January
CalendarMonth(day) == ((MonthOf(day) + 5) % 12) + 1

\* now.day
DayOfMonth(day) == day - MonthFirstDay(MonthOf(day)) + 1

\* calendar.monthrange(now.year, now.month)[1]
DaysInMonth(day) == MonthLengths[MonthOf(day)]

\* clock - timedelta(days=n): the time of day is kept
DaysBefore(clock, n) == Clock(clock.day - n, clock.midnight)

\* clock.replace(day=1): the time of day is kept
MonthStart(clock) == Clock(clock.day - (DayOfMonth(clock.day) - 1), clock.midnight)

\* trans_date >= clock, for a trans_date parsed from a dd/mm/YYYY cell and
\* hence at 00:00:00 of day date
OnOrAfter(date, clock) == date > clock.day \/ (date = clock.day /\ clock.midnight)

\* a date or amount cell of a row is <<v>> when it parses to v and <<>> when
\* strptime or float raises on it
DateParses(t) == t.date # <<>>

DateOf(t) == t.date[1]

AmountParses(t) == t.amount # <<>>

AmountOf(t) == t.amount[1]

\* t.get('category', 'other') or 'other'
CategoryOf(t) == IF t.category = "" THEN "other" ELSE t.category

RECURSIVE SumAmounts(_)
SumAmounts(txs) ==
    IF txs = <<>> THEN 0 ELSE AmountOf(Head(txs)) + SumAmounts(Tail(txs))

RECURSIVE Gcd(_, _)
Gcd(a, b) == IF b = 0 THEN a ELSE Gcd(b, a % b)

\* a quotient num / den with den > 0, kept exact and in lowest terms
Frac(num, den) ==
    LET g == Gcd(IF num < 0 THEN 0 - num ELSE num, den)
    IN  [num |-> num \div g, den |-> den \div g]

\* what a call gives back: a value, or the exception that left it
Returned(value) == [raised |-> FALSE, value |-> value]

Raised == [raised |-> TRUE]

\* A list comprehension `float(t['amount']) for t in txs if <pre> and
\* strptime(t['date']) >= cutoff` with no try around it: the conditions are
\* evaluated left to right, so a row that passes <pre> (a candidate) has its
\* date parsed and a candidate that also passes the date test has its amount
\* parsed; a row that fails <pre> is passed over unparsed.
ComprehensionRaises(candidates, cutoff) ==
    \E i \in 1 .. Len(candidates) :
        \/ ~DateParses(candidates[i])
        \/ OnOrAfter(DateOf(candidates[i]), cutoff) /\ ~AmountParses(candidates[i])

ComprehensionRows(candidates, cutoff) ==
    SelectSeq(candidates, LAMBDA t : DateParses(t) /\ OnOrAfter(DateOf(t), cutoff))

(* ---------------- the aggregates without a per-row try ---------------- *)

calculate_daily_average(clock, txs, days) ==
    LET cutoff_date == DaysBefore(clock, days)
        Pre(t) == t.type = "subtract"
        recent_expenses == ComprehensionRows(SelectSeq(txs, Pre), cutoff_date)
    IN  IF txs = <<>>
        THEN Returned(Frac(0, 1))
        ELSE IF ComprehensionRaises(SelectSeq(txs, Pre), cutoff_date)
             THEN Raised
             ELSE Returned(IF days > 0
                           THEN Frac(SumAmounts(recent_expenses), days)
                           ELSE Frac(0, 1))

calculate_category_average(clock, txs, category, days) ==
    LET cutoff_date == DaysBefore(clock, days)
        Pre(t) == t.type = "subtract" /\ t.category = category
        category_expenses == ComprehensionRows(SelectSeq(txs, Pre), cutoff_date)
    IN  IF txs = <<>>
        THEN Returned(Frac(0, 1))
        ELSE IF ComprehensionRaises(SelectSeq(txs, Pre), cutoff_date)
             THEN Raised
             ELSE Returned(Frac(SumAmounts(category_expenses),
                                IF Len(category_expenses) > 1
                                THEN Len(category_expenses) ELSE 1))

\* the pace thresholds of forecast_month_end
PaceVeryHigh == 2000

PaceHigh == 1000

PaceLow == 300

forecast_month_end(clock, txs) ==
    LET month_start == MonthStart(clock)
        days_elapsed == (clock.day - month_start.day) + 1
        days_in_month == DaysInMonth(clock.day)
        Pre(t) == t.type = "subtract"
        month_expenses == SumAmounts(ComprehensionRows(SelectSeq(txs, Pre), month_start))
    IN  IF ComprehensionRaises(SelectSeq(txs, Pre), month_start)
        THEN Raised
        ELSE [raised     |-> FALSE,
              daily_rate |-> Frac(month_expenses, days_elapsed),
              forecast   |-> Frac(month_expenses * days_in_month, days_elapsed),
              pace       |-> IF month_expenses > PaceVeryHigh * days_elapsed
                             THEN "very high"
                             ELSE IF month_expenses > PaceHigh * days_elapsed
                             THEN "high"
                             ELSE IF month_expenses < PaceLow * days_elapsed
                             THEN "low"
                             ELSE "normal"]

\* int(x) for x = num / den with den > 0: the quotient with its fraction
\* dropped, whatever its sign
IntOf(num, den) == IF num >= 0 THEN num \div den ELSE 0 - ((0 - num) \div den)

\* days_left when nothing was spent
NoBurnDaysLeft == 999

get_burn_rate(clock, wallet_balance, txs, days) ==
    LET cutoff == DaysBefore(clock, days)
        Pre(t) == t.type = "subtract" /\ t.wallet_type = "wallet"
        wallet_expenses == SumAmounts(ComprehensionRows(SelectSeq(txs, Pre), cutoff))
    IN  IF ComprehensionRaises(SelectSeq(txs, Pre), cutoff)
        THEN Raised
        ELSE [raised     |-> FALSE,
              daily_burn |-> IF days > 0 THEN Frac(wallet_expenses, days)
                             ELSE Frac(0, 1),
              days_left  |-> IF days > 0 /\ wallet_expenses > 0
                             THEN IntOf(wallet_balance * days, wallet_expenses)
                             ELSE NoBurnDaysLeft]

(* ------------------ the aggregates with a per-row try ----------------- *)

\* the categories of the rows of txs
CategoriesOf(txs) == {CategoryOf(txs[i]) : i \in 1 .. Len(txs)}

\* a defaultdict(float) filled with the rows of txs under their categories
ByCategory(txs) ==
    [c \in CategoriesOf(txs) |->
        SumAmounts(SelectSeq(txs, LAMBDA t : CategoryOf(t) = c))]

get_category_breakdown(clock, txs, period_days) ==
    LET cutoff_date == DaysBefore(clock, period_days)
        counted == SelectSeq(txs, LAMBDA t :
                       /\ t.type = "subtract"
                       /\ DateParses(t)
                       /\ OnOrAfter(DateOf(t), cutoff_date)
                       /\ AmountParses(t))
        category_totals == ByCategory(counted)
        total == SumAmounts(counted)
    IN  IF total = 0
        THEN Returned(<<>>)
        ELSE Returned([c \in DOMAIN category_totals |->
                          Frac(category_totals[c] * 100, total)])

get_income_expense_summary(clock, txs, period_days) ==
    LET cutoff_date == DaysBefore(clock, period_days)
        counted == SelectSeq(txs, LAMBDA t :
                       /\ DateParses(t)
                       /\ OnOrAfter(DateOf(t), cutoff_date)
                       /\ AmountParses(t))
        income == SumAmounts(SelectSeq(counted, LAMBDA t : t.type = "add"))
        expenses == SumAmounts(SelectSeq(counted, LAMBDA t : t.type = "subtract"))
        savings == income - expenses
    IN  [raised       |-> FALSE,
         income       |-> income,
         expenses     |-> expenses,
         savings      |-> savings,
         savings_rate |-> IF income > 0 THEN Frac(savings * 100, income)
                          ELSE Frac(0, 1),
         period_days  |-> period_days]

\* detect_trend's category argument when no category is asked for
AllCategories == "None"

\* the change, in percent, beyond which detect_trend reports a direction
TrendThreshold == 15

\* f"{num / den:.0f}" for num, den > 0: the nearest whole number, the even
\* one when two are equally near
RoundHalfEven(num, den) ==
    LET q == num \div den
        r == num % den
    IN  IF 2 * r < den THEN q
        ELSE IF 2 * r > den THEN q + 1
        ELSE IF q % 2 = 0 THEN q ELSE q + 1

\* WeekTotal counting the credits of the week with its debits
WeekTotal_AnyType(clock, txs, category, week_offset) ==
    LET week_start == DaysBefore(clock, 7 * (week_offset + 1))
        week_end == DaysBefore(clock, 7 * week_offset)
    IN  SumAmounts(SelectSeq(txs, LAMBDA t :
            /\ DateParses(t)
            /\ OnOrAfter(DateOf(t), week_start)
            /\ ~OnOrAfter(DateOf(t), week_end)
            /\ (category = AllCategories \/ CategoryOf(t) = category)
            /\ AmountParses(t)))

\* week_total of detect_trend for one week_offset
WeekTotal(clock, txs, category, week_offset) ==
    LET week_start == DaysBefore(clock, 7 * (week_offset + 1))
        week_end == DaysBefore(clock, 7 * week_offset)
    IN  SumAmounts(SelectSeq(txs, LAMBDA t :
            /\ DateParses(t)
            /\ OnOrAfter(DateOf(t), week_start)
            /\ ~OnOrAfter(DateOf(t), week_end)
            /\ t.type = "subtract"
            /\ (category = AllCategories \/ CategoryOf(t) = category)
            /\ AmountParses(t)))

\* a trend label: the direction and, in <<percent>>, the figure after it
TrendLabel(direction, percent) == [direction |-> direction, percent |-> percent]

detect_trend(clock, txs, category, weeks) ==
    LET \* week_totals after the reverse: the oldest week first
        week_totals == [k \in 1 .. weeks |->
                           WeekTotal(clock, txs, category, weeks - k)]
        recent == week_totals[weeks - 1] + week_totals[weeks]
        older == week_totals[1] + week_totals[2]
        \* change = num / older in percent; the halves of the two means cancel
        num == (recent - older) * 100
    IN  IF Len(txs) < 2
        THEN Returned(TrendLabel("Not enough data", <<>>))
        ELSE IF weeks < 2
        THEN Returned(TrendLabel("stable", <<>>))
        ELSE IF older = 0
        THEN Returned(TrendLabel(IF recent > 0 THEN "increasing" ELSE "stable", <<>>))
        ELSE IF num > TrendThreshold * older
        THEN Returned(TrendLabel("increasing", <<RoundHalfEven(num, older)>>))
        ELSE IF num < (0 - TrendThreshold) * older
        THEN Returned(TrendLabel("decreasing", <<RoundHalfEven(0 - num, older)>>))
        ELSE Returned(TrendLabel("stable", <<>>))

compare_periods(clock, txs, period) ==
    LET current_start == IF period = "week" THEN DaysBefore(clock, 7)
                         ELSE MonthStart(clock)
        \* replace(year=now.year-1, month=12, day=1) in January and
        \* replace(month=now.month-1, day=1) otherwise: the 1st of the month
        \* before, the time of day kept
        previous_start == IF period = "week" THEN DaysBefore(clock, 14)
                          ELSE IF CalendarMonth(clock.day) = 1
                          THEN Clock(MonthFirstDay(MonthOf(clock.day) - 1),
                                     clock.midnight)
                          ELSE Clock(MonthFirstDay(MonthOf(clock.day) - 1),
                                     clock.midnight)
        previous_end == IF period = "week" THEN DaysBefore(clock, 7)
                        ELSE DaysBefore(current_start, 1)
        parsed == SelectSeq(txs, LAMBDA t :
                      t.type = "subtract" /\ DateParses(t) /\ AmountParses(t))
        current == SelectSeq(parsed, LAMBDA t : OnOrAfter(DateOf(t), current_start))
        previous == SelectSeq(parsed, LAMBDA t :
                        /\ ~OnOrAfter(DateOf(t), current_start)
                        /\ OnOrAfter(DateOf(t), previous_start)
                        /\ ~OnOrAfter(DateOf(t), previous_end))
        current_expenses == SumAmounts(current)
        previous_expenses == SumAmounts(previous)
        difference == current_expenses - previous_expenses
    IN  IF period \notin {"week", "month"}
        THEN Returned(<<>>)
        ELSE [raised               |-> FALSE,
              current_total        |-> current_expenses,
              previous_total       |-> previous_expenses,
              difference           |-> difference,
              change_percent       |-> IF previous_expenses > 0
                                       THEN Frac(difference * 100, previous_expenses)
                                       ELSE Frac(0, 1),
              current_by_category  |-> ByCategory(current),
              previous_by_category |-> ByCategory(previous),
              period               |-> period,
              saved                |-> difference < 0]

(* ------------------------- the analytics calls ------------------------ *)

\* how many records the analytics are handed
MaxRows == 2

\* the default periods of the aggregates, in days, and detect_trend's weeks
DailyAverageDays == 30

BreakdownDays == 30

SummaryDays == 30

BurnRateDays == 7

TrendWeeks == 4

\* a record of the transactions worksheet as get_all_records returns it
Record(date, type, wallet_type, amount, category) ==
    [date |-> date, type |-> type, wallet_type |-> wallet_type,
     amount |-> amount, category |-> category]

\* one more record in the worksheet, drawn from the set Records
AppendRecord(Records) ==
    /\ Len(history) < MaxRows
    /\ \E t \in Records : history' = Append(history, t)
    /\ report' = NoReport
    /\ UNCHANGED <<now, transactions, lending, last, tasks, ai, chat, prefs>>

\* the state an analytics call leaves alone
notReport == <<now, history, transactions, lending, last, tasks, ai, chat, prefs>>

CalculateDailyAverage ==
    /\ report' = [fn  |-> "calculate_daily_average",
                  out |-> calculate_daily_average(now, history, DailyAverageDays)]
    /\ UNCHANGED notReport

CalculateCategoryAverage ==
    /\ \E category \in {"food"} :
          report' = [fn       |-> "calculate_category_average",
                     category |-> category,
                     out      |-> calculate_category_average(now, history, category,
                                                             DailyAverageDays)]
    /\ UNCHANGED notReport

GetCategoryBreakdown ==
    /\ report' = [fn  |-> "get_category_breakdown",
                  out |-> get_category_breakdown(now, history, BreakdownDays)]
    /\ UNCHANGED notReport

DetectTrend ==
    /\ report' = [fn  |-> "detect_trend",
                  out |-> detect_trend(now, history, AllCategories, TrendWeeks)]
    /\ UNCHANGED notReport

ForecastMonthEnd ==
    /\ report' = [fn  |-> "forecast_month_end",
                  out |-> forecast_month_end(now, history)]
    /\ UNCHANGED notReport

GetBurnRate(Balances) ==
    /\ \E wallet_balance \in Balances :
          report' = [fn             |-> "get_burn_rate",
                     wallet_balance |-> wallet_balance,
                     out            |-> get_burn_rate(now, wallet_balance, history,
                                                      BurnRateDays)]
    /\ UNCHANGED notReport

ComparePeriods ==
    /\ \E period \in {"week", "month", "year"} :
          report' = [fn     |-> "compare_periods",
                     period |-> period,
                     out    |-> compare_periods(now, history, period)]
    /\ UNCHANGED notReport

GetIncomeExpenseSummary ==
    /\ report' = [fn  |-> "get_income_expense_summary",
                  out |-> get_income_expense_summary(now, history, SummaryDays)]
    /\ UNCHANGED notReport

(* ----------------- reports over a worksheet with corrupt rows --------- *)

\* the day the reports are asked for, and a day more than a month earlier
ReportDay == 50

OldDay == 10

\* well-formed records of today and of the old day
WellFormedRecords ==
    {Record(<<d>>, type, wallet_type, <<100>>, category) :
        d \in {ReportDay, OldDay}, type \in TransactionTypes,
        wallet_type \in Wallets, category \in {"food", ""}}

\* records whose date cell, amount cell or both do not parse
CorruptRecords ==
    {Record(date, type, "wallet", amount, "food") :
        date \in {<<>>, <<ReportDay>>, <<OldDay>>}, amount \in {<<>>, <<100>>},
        type \in TransactionTypes} \ WellFormedRecords

InitAnalytics ==
    /\ transactions = <<>>
    /\ lending = <<>>
    /\ last = NoCall
    /\ tasks = <<>>
    /\ now \in {Clock(ReportDay, FALSE), Clock(ReportDay, TRUE)}
    /\ history = <<>>
    /\ report = NoReport
    /\ AiIdle
    /\ ChatIdle
    /\ PrefsIdle

NextAnalytics ==
    \/ AppendRecord(WellFormedRecords \cup CorruptRecords)
    \/ CalculateDailyAverage
    \/ CalculateCategoryAverage
    \/ GetCategoryBreakdown
    \/ DetectTrend
    \/ ForecastMonthEnd
    \/ GetBurnRate({500})
    \/ ComparePeriods
    \/ GetIncomeExpenseSummary

SpecAnalytics == InitAnalytics /\ [][NextAnalytics]_vars

\* the rows of txs whose date and amount both parse
Parsing(txs) == SelectSeq(txs, LAMBDA t : DateParses(t) /\ AmountParses(t))

\* the result of the reported call had it been made on the records txs
SameCallOn(txs) ==
    CASE report.fn = "calculate_daily_average" ->
            calculate_daily_average(now, txs, DailyAverageDays)
      [] report.fn = "calculate_category_average" ->
            calculate_category_average(now, txs, report.category, DailyAverageDays)
      [] report.fn = "get_category_breakdown" ->
            get_category_breakdown(now, txs, BreakdownDays)
      [] report.fn = "detect_trend" ->
            detect_trend(now, txs, AllCategories, TrendWeeks)
      [] report.fn = "forecast_month_end" ->
            forecast_month_end(now, txs)
      [] report.fn = "get_burn_rate" ->
            get_burn_rate(now, report.wallet_balance, txs, BurnRateDays)
      [] report.fn = "compare_periods" ->
            compare_periods(now, txs, report.period)
      [] report.fn = "get_income_expense_summary" ->
            get_income_expense_summary(now, txs, SummaryDays)

\* C12: no analytics aggregate raises on a worksheet that holds a row whose
\* date or amount does not parse; the row is skipped and the call returns what
\* it returns on the remaining rows (for detect_trend, when at least two rows
\* remain).
CorruptRowsSkipped ==
    report.fn # "none" =>
        /\ ~report.out.raised
        /\ (report.fn = "detect_trend" => Len(Parsing(history)) >= 2)
              => report.out = SameCallOn(Parsing(history))

(* ===================== natural-language messages ====================== *)

\* parsed['amount'] as parse_natural_language returns it: present tells
\* whether the key is there, and text is <<>> for the empty string and <<n>>
\* for a string that float() reads as n
ParsedAmount(present, text) == [present |-> present, text |-> text]

\* the results of parse_natural_language: a provider's JSON may lack the key,
\* the fallback parser gives the digits it found or ''
ParsedAmounts ==
    {ParsedAmount(FALSE, <<>>)}
        \cup {ParsedAmount(TRUE, text) : text \in {<<>>} \cup {<<n>> : n \in 0 .. MaxAmount}}

\* parsed.get('amount') is truthy: a string that is not empty
AmountGiven(amount) == amount.present /\ amount.text # <<>>

\* float(parsed.get('amount', 0)) raises ValueError on the empty string
FloatRaises(amount) == amount.present /\ amount.text = <<>>

\* float(parsed.get('amount', 0)) when it does not raise
FloatOf(amount) == IF amount.present THEN amount.text[1] ELSE 0

\* the persons a lending or repayment message names, after .title()
ChatPersons == {"Amit"}

\* what a handler did with a message: the branch of handle_natural_language
\* that took it, the parsed amount, the replies it sent in order and whether
\* an exception left the handler
Handled(flow, amount, replies, raised) ==
    [flow |-> flow, amount |-> amount, replies |-> replies, raised |-> raised]

NoMessage == Handled("none", ParsedAmount(FALSE, <<>>), <<>>, FALSE)

\* the two worksheets together hold fewer rows than the messages of one
\* conversation may write
StoresHaveRoom == Len(transactions) + Len(lending) < MaxTx

\* the state a message handler leaves alone
notChat == <<tasks, analyticsVars, ai, prefs>>

\* handle_natural_language, the branch of the expense keywords; the updates
\* of the preference document and the alert text are outside this state
\* machine
HandleExpenseNatural ==
    /\ \E amount \in ParsedAmounts, wallet_type \in Wallets :
          IF ~AmountGiven(amount)
          THEN /\ chat' = Handled("expense", amount, <<"analyzing", "clarify">>, FALSE)
               /\ UNCHANGED <<transactions, last>>
          ELSE /\ StoresHaveRoom
               /\ transactions' = add_transaction(transactions, "subtract", wallet_type,
                                                  amount.text[1], "other")
               /\ last' = Call("add_transaction", "subtract", wallet_type, "", "",
                               amount.text[1], TRUE, "", 0,
                               get_current_balances(transactions'))
               /\ chat' = Handled("expense", amount, <<"analyzing", "recorded">>, FALSE)
    /\ UNCHANGED <<lending, notChat>>

\* handle_natural_language, the branch of the income keywords
HandleIncomeNatural ==
    /\ \E amount \in ParsedAmounts, wallet_type \in Wallets :
          IF ~AmountGiven(amount)
          THEN /\ chat' = Handled("income", amount, <<"processing", "clarify">>, FALSE)
               /\ UNCHANGED <<transactions, last>>
          ELSE /\ StoresHaveRoom
               /\ transactions' = add_transaction(transactions, "add", wallet_type,
                                                  amount.text[1], "income")
               /\ last' = Call("add_transaction", "add", wallet_type, "", "",
                               amount.text[1], TRUE, "", 0,
                               get_current_balances(transactions'))
               /\ chat' = Handled("income", amount, <<"processing", "recorded">>, FALSE)
    /\ UNCHANGED <<lending, notChat>>

handle_lending_natural ==
    /\ \E amount \in ParsedAmounts, person \in ChatPersons \cup {"Unknown"} :
          IF FloatRaises(amount)
          THEN /\ chat' = Handled("lending", amount, <<>>, TRUE)
               /\ UNCHANGED <<lending, last>>
          ELSE IF FloatOf(amount) = 0
          THEN /\ chat' = Handled("lending", amount, <<"clarify">>, FALSE)
               /\ UNCHANGED <<lending, last>>
          ELSE /\ StoresHaveRoom
               /\ lending' = Append(lending, LendingRow(person, FloatOf(amount)))
               /\ last' = Call("add_lending", "", "", "", person, FloatOf(amount),
                               TRUE, "", 0, <<0, 0>>)
               /\ chat' = Handled("lending", amount, <<"recorded">>, FALSE)
    /\ UNCHANGED <<transactions, notChat>>

handle_return_natural ==
    /\ UNCHANGED notChat
    /\ \E amount \in ParsedAmounts, person \in ChatPersons \cup {"None"} :
          IF FloatRaises(amount)
          THEN /\ chat' = Handled("repayment", amount, <<>>, TRUE)
               /\ UNCHANGED <<transactions, lending, last>>
          ELSE IF FloatOf(amount) = 0
          THEN /\ chat' = Handled("repayment", amount, <<"clarify">>, FALSE)
               /\ UNCHANGED <<transactions, lending, last>>
          ELSE IF person = "None"
          THEN /\ chat' = Handled("repayment", amount, <<"clarify person">>, FALSE)
               /\ UNCHANGED <<transactions, lending, last>>
          ELSE LET out == Allocate(lending, 1, FloatOf(amount), person, "wallet")
                   applied == FloatOf(amount) - out.remaining_to_apply
               IN  /\ lending' = out.records
                   /\ IF SomeApplied(out.remaining_to_apply, FloatOf(amount))
                      THEN /\ StoresHaveRoom
                           /\ transactions' = add_transaction(transactions, "add",
                                                  "wallet", applied, "lending")
                           /\ last' = Call("return_lending", "", "", "wallet", person,
                                           FloatOf(amount), TRUE, "applied to loans",
                                           applied, <<0, 0>>)
                           /\ chat' = Handled("repayment", amount, <<"received">>, FALSE)
                      ELSE /\ UNCHANGED transactions
                           /\ last' = Call("return_lending", "", "", "wallet", person,
                                           FloatOf(amount), FALSE,
                                           "No pending loans found", 0, <<0, 0>>)
                           /\ chat' = Handled("repayment", amount, <<"failed">>, FALSE)

\* Free-text messages: each is taken by one of the four amount-bearing
\* branches of handle_natural_language, with whatever the parse returned.
InitChat ==
    /\ transactions = <<>>
    /\ lending = <<>>
    /\ last = NoCall
    /\ tasks = <<>>
    /\ AnalyticsIdle
    /\ AiIdle
    /\ chat = NoMessage
    /\ PrefsIdle

NextChat ==
    \/ HandleExpenseNatural
    \/ HandleIncomeNatural
    \/ handle_lending_natural
    \/ handle_return_natural

SpecChat == InitChat /\ [][NextChat]_vars

\* C13: a parse that extracts no amount (amount is the empty string) is never
\* an exception: in the expense, income, lending and repayment flows the
\* handler then ends with a request for clarification, raises nothing and
\* writes nothing to the ledger or the lending store.
ParseFailureAsksForClarification ==
    [][(chat'.flow \in {"expense", "income", "lending", "repayment"}
          /\ chat'.amount = ParsedAmount(TRUE, <<>>))
       => /\ ~chat'.raised
          /\ chat'.replies # <<>>
          /\ chat'.replies[Len(chat'.replies)] = "clarify"
          /\ transactions' = transactions
          /\ lending' = lending]_vars

(* ========================= the AI providers =========================== *)

Providers == {"google", "groq", "openrouter"}

\* _determine_provider, from the set of providers whose key is set
DetermineProvider(keys) ==
    IF "google" \in keys THEN "google"
    ELSE IF "groq" \in keys THEN "groq"
    ELSE IF "openrouter" \in keys THEN "openrouter"
    ELSE "fallback"

\* the providers list of _make_request
ProviderOrder(active_provider) ==
    IF active_provider = "google" THEN <<"google", "groq", "openrouter">>
    ELSE IF active_provider = "groq" THEN <<"groq", "google", "openrouter">>
    ELSE <<"openrouter", "google", "groq">>

\* HasKey calling a provider whether or not its key is set
HasKey_Always(keys, name) == TRUE

\* the test of _make_request's loop: the provider's key is set
HasKey(keys, name) == name \in keys

\* what a provider call gives back: nothing (None, an error, a timeout), text
\* holding a JSON object, or text that holds none or does not load
Responses == {"none", "object", "garbage"}

\* the first number in the message text: <<>> when it has none
TextAmounts == {<<>>} \cup {<<n>> : n \in 1 .. MaxAmount}

\* the result of a parse: where it came from and its amount
ParseResult(source, amount) == [source |-> source, amount |-> amount]

\* _fallback_parse: the amount is the first number of the text, or ''
FallbackParse(text_amount) == ParseResult("fallback", ParsedAmount(TRUE, text_amount))

\* the service between two parse calls
AiService(keys) ==
    [keys            |-> keys,
     active_provider |-> DetermineProvider(keys),
     pc              |-> "idle",
     i               |-> 1,
     called          |-> <<>>,
     response        |-> "none",
     text_amount     |-> <<>>,
     result          |-> ParseResult("none", ParsedAmount(FALSE, <<>>))]

\* the state the AI service leaves alone
notAi == <<transactions, lending, last, tasks, analyticsVars, chat, prefs>>

\* parse_natural_language up to its call of _make_request
StartParse ==
    /\ ai.pc \in {"idle", "done"}
    /\ \E text_amount \in TextAmounts :
          ai' = [AiService(ai.keys) EXCEPT !.pc = "request",
                                           !.text_amount = text_amount]
    /\ UNCHANGED notAi

\* one turn of _make_request's loop: the provider is skipped when its key is
\* not set; otherwise it is called, and a response that is not empty ends the
\* loop
TryProvider ==
    /\ ai.pc = "request"
    /\ ai.i <= Len(ProviderOrder(ai.active_provider))
    /\ LET name == ProviderOrder(ai.active_provider)[ai.i]
       IN  IF HasKey(ai.keys, name)
           THEN \E response \in Responses :
                   ai' = [ai EXCEPT !.called = Append(@, name),
                                    !.response = response,
                                    !.i = IF response = "none" THEN @ + 1 ELSE @,
                                    !.pc = IF response = "none" THEN "request"
                                           ELSE "respond"]
           ELSE ai' = [ai EXCEPT !.i = @ + 1]
    /\ UNCHANGED notAi

\* _make_request returns None after the loop; parse_natural_language returns
\* the fallback parser's result
AllProvidersFailed ==
    /\ ai.pc = "request"
    /\ ai.i > Len(ProviderOrder(ai.active_provider))
    /\ ai' = [ai EXCEPT !.pc = "done",
                        !.response = "none",
                        !.result = FallbackParse(ai.text_amount)]
    /\ UNCHANGED notAi

\* parse_natural_language with a response: the JSON object a provider sent,
\* with whatever amount it holds, or the fallback parser's result
UseResponse ==
    /\ ai.pc = "respond"
    /\ IF ai.response = "object"
       THEN \E amount \in ParsedAmounts :
               ai' = [ai EXCEPT !.pc = "done",
                                !.result = ParseResult("provider", amount)]
       ELSE ai' = [ai EXCEPT !.pc = "done",
                             !.result = FallbackParse(ai.text_amount)]
    /\ UNCHANGED notAi

\* A service built with any set of keys, parsing one message after another;
\* every provider call comes back (requests.post has timeout=30), so a parse
\* under way takes its next step.
InitAi ==
    /\ transactions = <<>>
    /\ lending = <<>>
    /\ last = NoCall
    /\ tasks = <<>>
    /\ AnalyticsIdle
    /\ ai \in {AiService(keys) : keys \in SUBSET Providers}
    /\ ChatIdle
    /\ PrefsIdle

NextAi ==
    \/ StartParse
    \/ TryProvider
    \/ AllProvidersFailed
    \/ UseResponse

SpecAi ==
    /\ InitAi
    /\ [][NextAi]_vars
    /\ WF_vars(TryProvider \/ AllProvidersFailed \/ UseResponse)

\* the place of a provider in the preference order
PlaceOf(name, order) == CHOOSE k \in 1 .. Len(order) : order[k] = name

\* the providers called so far, under the rules of the preference order
CalledInOrder ==
    LET order == ProviderOrder(ai.active_provider)
    IN  /\ \A j \in 1 .. Len(ai.called) : ai.called[j] \in ai.keys
        /\ \A j \in 1 .. Len(ai.called), k \in 1 .. Len(ai.called) :
              j < k => PlaceOf(ai.called[j], order) < PlaceOf(ai.called[k], order)
        /\ ai.called # <<>> => ai.called[1] = ai.active_provider

\* the result of a finished parse
ResultOfParse ==
    ai.pc = "done" =>
        /\ ai.result.source \in {"provider", "fallback"}
        /\ ai.result.source = "provider" <=> ai.response = "object"
        /\ ai.result.source = "fallback" => ai.result = FallbackParse(ai.text_amount)
        /\ ai.response = "none" =>
              {ai.called[j] : j \in 1 .. Len(ai.called)} = ai.keys

\* C14: within one parse_natural_language call every provider with a key is
\* called at most once, in the preference order that starts at the active
\* provider; a provider without a key is never called and a failed provider
\* is not called again; the call ends, with the fallback parser's result
\* when every provider failed or the response held no JSON object, and with
\* the provider's object otherwise.
InterpreterFallback ==
    /\ [](CalledInOrder /\ ResultOfParse)
    /\ (ai.pc = "request") ~> (ai.pc = "done")

\* all three providers were called and failed, in the order google, groq,
\* openrouter, and the parse ended with the fallback parser's empty amount
InterpreterFallbackWitness ==
    /\ ai.pc = "done"
    /\ ai.called = <<"google", "groq", "openrouter">>
    /\ ai.response = "none"
    /\ ai.result = FallbackParse(<<>>)

(* ========================== budget banding ============================ *)

\* the thresholds of check_budget_status, in percent of the budget
CheckExceeded == 100

CheckCritical == 90

CheckWarning == 80

CheckModerate == 50

\* check_budget_status: the status it returns; percentage >= k is compared
\* as spent * 100 >= k * budget
check_budget_status(spent, budget) ==
    IF budget <= 0 THEN "no_budget"
    ELSE IF spent * 100 >= CheckExceeded * budget THEN "exceeded"
    ELSE IF spent * 100 >= CheckCritical * budget THEN "critical"
    ELSE IF spent * 100 >= CheckWarning * budget THEN "warning"
    ELSE IF spent * 100 >= CheckModerate * budget THEN "moderate"
    ELSE "good"

\* the thresholds of analyze_budget
AnalyzeExceeded == 100

AnalyzeCritical == 90

AnalyzeWarning == 75

\* analyze_budget: the status of a category with the given spending and
\* budget; the percentage is 0 when the budget is not positive
AnalyzeBudgetStatus(spent, budget) ==
    LET percentage_num == IF budget > 0 THEN spent * 100 ELSE 0
        percentage_den == IF budget > 0 THEN budget ELSE 1
    IN  IF percentage_num >= AnalyzeExceeded * percentage_den THEN "exceeded"
        ELSE IF percentage_num >= AnalyzeCritical * percentage_den THEN "critical"
        ELSE IF percentage_num >= AnalyzeWarning * percentage_den THEN "warning"
        ELSE "good"

\* the largest spending classified
MaxSpent == 110

\* the budgets classified
Budgets == {0, 20, 100}

\* the state a call of the AI service's scoring functions leaves alone
notScore == <<now, history, transactions, lending, last, tasks, ai, chat, prefs>>

\* one spending and one budget classified at both call sites
ClassifyBudget ==
    /\ \E spent \in 0 .. MaxSpent, budget \in Budgets :
          report' = [fn      |-> "budget",
                     spent   |-> spent,
                     budget  |-> budget,
                     check   |-> check_budget_status(spent, budget),
                     analyze |-> AnalyzeBudgetStatus(spent, budget)]
    /\ UNCHANGED notScore

InitBudget ==
    /\ transactions = <<>>
    /\ lending = <<>>
    /\ last = NoCall
    /\ tasks = <<>>
    /\ AnalyticsIdle
    /\ AiIdle
    /\ ChatIdle
    /\ PrefsIdle

NextBudget == ClassifyBudget

SpecBudget == InitBudget /\ [][NextBudget]_vars

\* C15: for every spending and every budget above 0, check_budget_status and
\* analyze_budget give the same band, which is exceeded from 100 percent,
\* critical from 90, warning from 80, moderate from 50 and good below.
SameBudgetBand ==
    (report.fn = "budget" /\ report.budget > 0) =>
        LET pct100 == report.spent * 100
            band == IF pct100 >= 100 * report.budget THEN "exceeded"
                    ELSE IF pct100 >= 90 * report.budget THEN "critical"
                    ELSE IF pct100 >= 80 * report.budget THEN "warning"
                    ELSE IF pct100 >= 50 * report.budget THEN "moderate"
                    ELSE "good"
        IN  /\ report.check = report.analyze
            /\ report.check = band

(* ======================= financial health score ======================= *)

\* max(0, min(100, score)) left out
Clamp_None(score) == score

\* max(0, min(100, score))
Clamp(score) == IF score > 100 THEN 100 ELSE IF score < 0 THEN 0 ELSE score

\* monthly_expenses when no expenses are given
DefaultMonthlyExpenses == 30000

\* the score before the clamp: the base 50 and the five factors
RawHealthScore(data) ==
    LET savings_factor ==
            IF data.income > 0
            THEN LET rate100 == (data.income - data.expenses) * 100
                 IN  IF rate100 >= 30 * data.income THEN 25
                     ELSE IF rate100 >= 20 * data.income THEN 20
                     ELSE IF rate100 >= 10 * data.income THEN 10
                     ELSE IF rate100 >= 0 THEN 5
                     ELSE 0 - 10
            ELSE 0
        budget_factor ==
            IF data.budget > 0
            THEN IF data.expenses * 100 <= 80 * data.budget THEN 20
                 ELSE IF data.expenses * 100 <= 100 * data.budget THEN 10
                 ELSE 0 - 15
            ELSE 0
        trend_factor ==
            IF data.trend = "decreasing" THEN 15
            ELSE IF data.trend = "stable" THEN 10
            ELSE 0 - 5
        monthly_expenses == IF data.expenses > 0 THEN data.expenses
                            ELSE DefaultMonthlyExpenses
        fund_factor ==
            IF data.savings >= 6 * monthly_expenses THEN 15
            ELSE IF data.savings >= 3 * monthly_expenses THEN 10
            ELSE IF data.savings >= monthly_expenses THEN 5
            ELSE 0 - 5
        active_goals == SelectSeq(data.goals, LAMBDA g : ~g.completed)
        RECURSIVE SumProgress(_)
        SumProgress(goals) ==
            IF goals = <<>> THEN 0 ELSE Head(goals).progress + SumProgress(Tail(goals))
        goal_factor ==
            IF active_goals # <<>>
            THEN IF SumProgress(active_goals) >= 75 * Len(active_goals) THEN 10
                 ELSE IF SumProgress(active_goals) >= 50 * Len(active_goals) THEN 5
                 ELSE 0
            ELSE 0
    IN  50 + savings_factor + budget_factor + trend_factor + fund_factor + goal_factor

\* the grade of a score
GradeOf(score) ==
    IF score >= 80 THEN "A"
    ELSE IF score >= 60 THEN "B"
    ELSE IF score >= 40 THEN "C"
    ELSE "D"

calculate_financial_health_score(data) ==
    LET score == Clamp(RawHealthScore(data))
    IN  [score |-> score, grade |-> GradeOf(score)]

\* the data the score is asked for
HealthData ==
    [income   : {0, 100},
     expenses : {0, 50, 75, 85, 95, 120},
     budget   : {0, 100},
     trend    : {"decreasing", "stable", "increasing"},
     savings  : {0, 100, 400, 800},
     goals    : {<<>>,
                 <<[completed |-> FALSE, progress |-> 80]>>,
                 <<[completed |-> FALSE, progress |-> 50],
                   [completed |-> TRUE, progress |-> 100]>>,
                 <<[completed |-> FALSE, progress |-> 10]>>}]

CalculateFinancialHealthScore ==
    /\ \E data \in HealthData :
          report' = [fn   |-> "calculate_financial_health_score",
                     data |-> data,
                     raw  |-> RawHealthScore(data),
                     out  |-> calculate_financial_health_score(data)]
    /\ UNCHANGED notScore

InitHealth == InitBudget

NextHealth == CalculateFinancialHealthScore

SpecHealth == InitHealth /\ [][NextHealth]_vars

\* C19: for every input of calculate_financial_health_score, whatever the sum
\* of the base 50 and the factors, the score lies in 0 .. 100 and is that sum
\* brought into the range, and the grade is A from 80, B from 60, C from 40
\* and D below.
HealthScoreClamped ==
    report.fn = "calculate_financial_health_score" =>
        /\ report.out.score \in 0 .. 100
        /\ report.raw > 100 => report.out.score = 100
        /\ report.raw < 0 => report.out.score = 0
        /\ report.raw \in 0 .. 100 => report.out.score = report.raw
        /\ report.out.grade =
              (IF report.out.score >= 80 THEN "A"
               ELSE IF report.out.score >= 60 THEN "B"
               ELSE IF report.out.score >= 40 THEN "C"
               ELSE "D")

\* every factor at its best: the sum is 135, the score 100 and the grade A
HealthScoreClampedWitness ==
    /\ report.fn = "calculate_financial_health_score"
    /\ report.raw = 135
    /\ report.out.score = 100
    /\ report.out.grade = "A"

(* ==================== the preference document: goals ================== *)

\* how many goals a document holds and how far the clock runs, in seconds
MaxGoals == 2

MaxSecond == 2

GoalTypes == {"savings", "spending_limit"}

\* goal_id of add_goal: "goal_" and the clock reading to the second
GoalId(clock) == clock.second

\* the goal add_goal appends
Goal(goal_id, goal_type, target) ==
    [id |-> goal_id, type |-> goal_type, target |-> target, current |-> 0,
     completed |-> FALSE]

\* the place of the first goal with the id, 0 when there is none
FirstWithId(goals, goal_id) ==
    IF \E i \in 1 .. Len(goals) : goals[i].id = goal_id
    THEN CHOOSE i \in 1 .. Len(goals) :
            /\ goals[i].id = goal_id
            /\ \A j \in 1 .. (i - 1) : goals[j].id # goal_id
    ELSE 0

\* the state a call on the preference document leaves alone
notPrefs == <<history, transactions, lending, last, tasks, ai, chat>>

\* a second passes
TickSecond ==
    /\ now.second < MaxSecond
    /\ now' = [second |-> now.second + 1]
    /\ UNCHANGED <<prefs, report, notPrefs>>

\* add_goal: the new goal is appended and its id returned; place is where the
\* goal went
AddGoal ==
    /\ Len(prefs.goals) < MaxGoals
    /\ \E goal_type \in GoalTypes, target \in Amounts :
          /\ prefs' = [prefs EXCEPT !.goals =
                          Append(@, Goal(GoalId(now), goal_type, target))]
          /\ report' = [fn |-> "add_goal", goal_id |-> GoalId(now),
                        place |-> Len(prefs.goals) + 1, ok |-> TRUE]
    /\ UNCHANGED <<now, notPrefs>>

\* update_goal_progress: the first goal with the id gets the new current and
\* is completed once current reaches its target
UpdateGoalProgress ==
    /\ \E goal_id \in 0 .. MaxSecond, current \in 0 .. MaxAmount :
          LET i == FirstWithId(prefs.goals, goal_id)
          IN  /\ prefs' = IF i = 0 THEN prefs
                          ELSE [prefs EXCEPT
                                   !.goals[i].current = current,
                                   !.goals[i].completed =
                                       IF current >= prefs.goals[i].target
                                       THEN TRUE ELSE @]
              /\ report' = [fn |-> "update_goal_progress", goal_id |-> goal_id,
                            place |-> i, ok |-> i # 0]
    /\ UNCHANGED <<now, notPrefs>>

\* delete_goal: the first goal with the id is removed
DeleteGoal ==
    /\ \E goal_id \in 0 .. MaxSecond :
          LET i == FirstWithId(prefs.goals, goal_id)
          IN  /\ prefs' = IF i = 0 THEN prefs
                          ELSE [prefs EXCEPT !.goals =
                                   SubSeq(@, 1, i - 1) \o SubSeq(@, i + 1, Len(@))]
              /\ report' = [fn |-> "delete_goal", goal_id |-> goal_id,
                            place |-> i, ok |-> i # 0]
    /\ UNCHANGED <<now, notPrefs>>

\* One preference document, empty at first, with goals added, updated and
\* deleted while the clock runs.
InitGoals ==
    /\ transactions = <<>>
    /\ lending = <<>>
    /\ last = NoCall
    /\ tasks = <<>>
    /\ now = [second |-> 0]
    /\ history = <<>>
    /\ report = NoReport
    /\ AiIdle
    /\ ChatIdle
    /\ prefs = [goals |-> <<>>]

NextGoals ==
    \/ TickSecond
    \/ AddGoal
    \/ UpdateGoalProgress
    \/ DeleteGoal

SpecGoals == InitGoals /\ [][NextGoals]_vars

\* C20: after any sequence of add_goal calls on one preference document no
\* two goals in it share an id, also when two were added within the same
\* clock second, so that a call with an id reaches the one goal add_goal
\* returned the id for.
GoalIdsUnique ==
    \A i \in 1 .. Len(prefs.goals), j \in 1 .. Len(prefs.goals) :
        i # j => prefs.goals[i].id # prefs.goals[j].id

(* ======================= the month-end forecast ======================= *)

\* the tenth day of the 30-day month, the first day of that month and the
\* day before it
TenthDay == 72

FirstDay == 63

\* debits and credits around the start of the month
ForecastRecords ==
    {Record(<<d>>, type, "wallet", <<amount>>, "food") :
        d \in {FirstDay - 1, FirstDay, FirstDay + 4},
        type \in TransactionTypes,
        amount \in {1000, 3000, 11000, 21000}}

InitForecast ==
    /\ transactions = <<>>
    /\ lending = <<>>
    /\ last = NoCall
    /\ tasks = <<>>
    /\ now \in {Clock(TenthDay, FALSE), Clock(TenthDay, TRUE)}
    /\ history = <<>>
    /\ report = NoReport
    /\ AiIdle
    /\ ChatIdle
    /\ PrefsIdle

NextForecast ==
    \/ AppendRecord(ForecastRecords)
    \/ ForecastMonthEnd

SpecForecast == InitForecast /\ [][NextForecast]_vars

\* the debits of txs dated on or after day first
DebitsSince(txs, first) ==
    SumAmounts(SelectSeq(txs, LAMBDA t : t.type = "subtract" /\ DateOf(t) >= first))

\* C16: forecast_month_end sums every debit dated on or after the first day
\* of the current month, those of the 1st included at whatever time of day it
\* is called, divides by the days elapsed in the month and multiplies by the
\* days in the month; the pace is very high above 2000 a day, high above
\* 1000, low below 300 and normal otherwise, so that 1000 spent over 10
\* elapsed days of a 30-day month gives forecast 3000 and pace low.
ForecastFromMonthStart ==
    report.fn = "forecast_month_end" =>
        LET first == MonthFirstDay(MonthOf(now.day))
            days_elapsed == now.day - first + 1
            total == DebitsSince(history, first)
        IN  /\ ~report.out.raised
            /\ report.out.daily_rate = Frac(total, days_elapsed)
            /\ report.out.forecast = Frac(total * DaysInMonth(now.day), days_elapsed)
            /\ report.out.pace =
                  (IF total > 2000 * days_elapsed THEN "very high"
                   ELSE IF total > 1000 * days_elapsed THEN "high"
                   ELSE IF total < 300 * days_elapsed THEN "low"
                   ELSE "normal")
            /\ (total = 1000 /\ days_elapsed = 10 /\ DaysInMonth(now.day) = 30)
                  => report.out.forecast = Frac(3000, 1) /\ report.out.pace = "low"

(* ============================= the trend ============================== *)

\* how many records detect_trend is handed
MaxTrendRows == 4

\* one more record in the worksheet, dated no earlier than the last one
AppendLaterRecord(Records) ==
    /\ Len(history) < MaxTrendRows
    /\ \E t \in Records :
          /\ history # <<>> => DateOf(history[Len(history)]) <= DateOf(t)
          /\ history' = Append(history, t)
    /\ report' = NoReport
    /\ UNCHANGED <<now, transactions, lending, last, tasks, ai, chat, prefs>>

\* debits dated today and one to four weeks ago to the day, and a credit
TrendRecords ==
    {Record(<<ReportDay - 7 * k>>, "subtract", "wallet", <<amount>>, "food") :
        k \in 0 .. 4, amount \in {70, 100, 130}}
        \cup {Record(<<ReportDay - 7>>, "add", "wallet", <<100>>, "income")}

InitTrend ==
    /\ transactions = <<>>
    /\ lending = <<>>
    /\ last = NoCall
    /\ tasks = <<>>
    /\ now \in {Clock(ReportDay, FALSE), Clock(ReportDay, TRUE)}
    /\ history = <<>>
    /\ report = NoReport
    /\ AiIdle
    /\ ChatIdle
    /\ PrefsIdle

NextTrend ==
    \/ AppendLaterRecord(TrendRecords)
    \/ DetectTrend

SpecTrend == InitTrend /\ [][NextTrend]_vars

\* the debits of the weekly bucket that ends k weeks before the call: a
\* record dated a days before the call day belongs to it when a is in
\* 7k .. 7k + 6, and in 7k + 1 .. 7k + 7 for a call made exactly at midnight
BucketTotal(k) ==
    SumAmounts(SelectSeq(history, LAMBDA t :
        /\ t.type = "subtract"
        /\ LET a == now.day - DateOf(t)
           IN  IF now.midnight THEN 7 * k < a /\ a <= 7 * k + 7
               ELSE 7 * k <= a /\ a < 7 * k + 7))

\* the sums of the two most recent and of the two oldest of the four buckets
RecentTwo == BucketTotal(0) + BucketTotal(1)

OlderTwo == BucketTotal(2) + BucketTotal(3)

\* the label for a change of the mean of the recent two buckets against the
\* mean of the older two buckets, the older mean not being zero
LabelOfChange ==
    LET num == (RecentTwo - OlderTwo) * 100
    IN  IF num > 15 * OlderTwo
        THEN TrendLabel("increasing", <<RoundHalfEven(num, OlderTwo)>>)
        ELSE IF num < (0 - 15) * OlderTwo
        THEN TrendLabel("decreasing", <<RoundHalfEven(0 - num, OlderTwo)>>)
        ELSE TrendLabel("stable", <<>>)

\* C17 as stated: with fewer than 2 transactions detect_trend returns "Not
\* enough data"; otherwise it compares the mean of the two most recent of 4
\* weekly buckets with the mean of the two oldest and returns "increasing
\* X%" when the change is above +15%, "decreasing X%" when below -15% and
\* "stable" otherwise, exactly +15% and -15% being stable.
TrendLabelling ==
    report.fn = "detect_trend" =>
        /\ ~report.out.raised
        /\ IF Len(history) < 2
           THEN report.out.value = TrendLabel("Not enough data", <<>>)
           ELSE /\ report.out.value.direction \in {"increasing", "decreasing", "stable"}
                /\ report.out.value.direction # "stable" => report.out.value.percent # <<>>
                /\ RecentTwo > OlderTwo /\ (RecentTwo - OlderTwo) * 100 > 15 * OlderTwo
                      => report.out.value.direction = "increasing"
                /\ OlderTwo > 0 => report.out.value = LabelOfChange

\* C17: as above when the two oldest buckets hold debits; when they hold
\* none, detect_trend returns "increasing" without a percentage if the two
\* most recent buckets hold debits and "stable" if they hold none. Weekly
\* totals 100, 100, 100, 100 give "stable" and 100, 100, 130, 130 give
\* "increasing 30%".
TrendLabellingAmended ==
    report.fn = "detect_trend" =>
        /\ ~report.out.raised
        /\ IF Len(history) < 2
           THEN report.out.value = TrendLabel("Not enough data", <<>>)
           ELSE IF OlderTwo = 0
           THEN report.out.value =
                    TrendLabel(IF RecentTwo > 0 THEN "increasing" ELSE "stable", <<>>)
           ELSE report.out.value = LabelOfChange
        /\ (BucketTotal(3) = 100 /\ BucketTotal(2) = 100)
              => /\ (BucketTotal(1) = 100 /\ BucketTotal(0) = 100 /\ Len(history) >= 2)
                    => report.out.value = TrendLabel("stable", <<>>)
                 /\ (BucketTotal(1) = 130 /\ BucketTotal(0) = 130 /\ Len(history) >= 2)
                    => report.out.value = TrendLabel("increasing", <<30>>)

\* weekly totals 100, 100, 130, 130 have been labelled "increasing 30%"
TrendLabellingWitness ==
    /\ report.fn = "detect_trend"
    /\ Len(history) = 4
    /\ BucketTotal(3) = 100
    /\ BucketTotal(2) = 100
    /\ BucketTotal(1) = 130
    /\ BucketTotal(0) = 130
    /\ report.out.value = TrendLabel("increasing", <<30>>)

(* ============================ the burn rate =========================== *)

\* debits and credits of both wallets dated today, a week ago to the day and
\* the day before that
BurnRecords ==
    {Record(<<ReportDay - a>>, type, wallet_type, <<amount>>, "food") :
        a \in {0, BurnRateDays, BurnRateDays + 1},
        type \in TransactionTypes,
        wallet_type \in Wallets,
        amount \in {14, 21}}

\* wallet balances: overdrawn, empty and in credit
BurnBalances == {0 - 10, 0, 10, 100}

InitBurn ==
    /\ transactions = <<>>
    /\ lending = <<>>
    /\ last = NoCall
    /\ tasks = <<>>
    /\ now \in {Clock(ReportDay, FALSE), Clock(ReportDay, TRUE)}
    /\ history = <<>>
    /\ report = NoReport
    /\ AiIdle
    /\ ChatIdle
    /\ PrefsIdle

NextBurn ==
    \/ AppendRecord(BurnRecords)
    \/ GetBurnRate(BurnBalances)

SpecBurn == InitBurn /\ [][NextBurn]_vars

\* the wallet debits of the trailing days: those dated on or after the
\* moment that many days before the call
WalletDebitsSince(days) ==
    SumAmounts(SelectSeq(history, LAMBDA t :
        /\ t.type = "subtract"
        /\ t.wallet_type = "wallet"
        /\ OnOrAfter(DateOf(t), DaysBefore(now, days))))

\* C18: get_burn_rate returns daily_burn, the wallet debits of the trailing N
\* days divided by N, and days_left, which is floor(balance / daily_burn)
\* when daily_burn is above 0, for every balance, an overdrawn one included,
\* and 999 when daily_burn is 0.
BurnRateRunway ==
    report.fn = "get_burn_rate" =>
        LET expenses == WalletDebitsSince(BurnRateDays)
        IN  /\ ~report.out.raised
            /\ report.out.daily_burn = Frac(expenses, BurnRateDays)
            /\ report.out.days_left =
                  (IF expenses > 0
                   THEN (report.wallet_balance * BurnRateDays) \div expenses
                   ELSE 999)

(* ================== the preference document on disk ================== *)

\* most entries the health-score history reaches in the reload model
MaxScores == 2

\* an empty dict
EmptyDict == [k \in {} |-> 0]

\* d[k] = v on a dict
SetKey(d, k, v) ==
    IF k \in DOMAIN d
    THEN [d EXCEPT ![k] = v]
    ELSE [x \in DOMAIN d \cup {k} |-> IF x = k THEN v ELSE d[x]]

\* _get_default_prefs
DefaultPrefs ==
    [aliases               |-> EmptyDict,
     frequent_transactions |-> <<>>,
     spending_limits       |-> EmptyDict,
     budgets               |-> [monthly |-> EmptyDict, weekly |-> EmptyDict,
                                daily |-> EmptyDict],
     goals                 |-> <<>>,
     alert_settings        |-> [spike_multiplier |-> 3, weekly_summary |-> TRUE,
                                monthly_warning |-> TRUE, budget_alerts |-> TRUE,
                                goal_reminders |-> TRUE,
                                anomaly_detection |-> TRUE],
     context               |-> [last_category |-> "", last_amount |-> 0,
                                last_wallet |-> "wallet", last_merchant |-> "",
                                last_description |-> "",
                                last_transaction_time |-> ""],
     transaction_history   |-> <<>>,
     usual_amounts         |-> EmptyDict,
     income                |-> [monthly |-> 0, income_date |-> 1,
                                sources |-> <<>>],
     financial_health      |-> [score |-> 50, last_calculated |-> "",
                                history |-> <<>>],
     notifications         |-> [last_weekly_summary |-> "",
                                last_monthly_summary |-> "", pending |-> <<>>]]

\* the keys whose default is a dict (isinstance(value, dict))
DictDefaults ==
    {"aliases", "spending_limits", "budgets", "alert_settings", "context",
     "usual_amounts", "income", "financial_health", "notifications"}

\* Python's two sequence types and the one JSON has
PyTuple(items) == [is |-> "tuple", items |-> items]

PyList(items) == [is |-> "list", items |-> items]

JsonArray(items) == [is |-> "array", items |-> items]

\* the factors calculate_financial_health_score returns: a list of tuples
\* (name, points, message), the trend factor and the emergency-fund factor
\* among them
HealthFactors ==
    {<<PyTuple(<<"Trend", trend[1], trend[2]>>),
       PyTuple(<<"Emergency Fund", fund[1], fund[2]>>)>> :
        trend \in {<<"+10", "Stable spending pattern">>,
                   <<"-5", "Spending is increasing">>},
        fund \in {<<"-5", "Need to build emergency fund">>}}

\* json.dump of one entry of the health-score history: a tuple and a list
\* are both written as an array
DumpScore(entry) ==
    [entry EXCEPT !.factors =
        [i \in 1 .. Len(@) |-> JsonArray(@[i].items)]]

\* json.load of it: an array is read as a list
LoadScore(entry) ==
    [entry EXCEPT !.factors =
        [i \in 1 .. Len(@) |-> PyList(@[i].items)]]

HasHistory(doc) ==
    /\ "financial_health" \in DOMAIN doc
    /\ "history" \in DOMAIN doc["financial_health"]

\* json.dump(self.data): dicts, lists, strings, numbers and booleans are
\* written as they are
json_dump(data) ==
    IF HasHistory(data)
    THEN [data EXCEPT !["financial_health"]["history"] =
             [i \in 1 .. Len(@) |-> DumpScore(@[i])]]
    ELSE data

\* json.load(f)
json_load(text) ==
    IF HasHistory(text)
    THEN [text EXCEPT !["financial_health"]["history"] =
             [i \in 1 .. Len(@) |-> LoadScore(@[i])]]
    ELSE text

\* _ensure_defaults
_ensure_defaults(data) ==
    LET defaults == DefaultPrefs
    IN  [key \in DOMAIN data \cup DOMAIN defaults |->
            IF key \notin DOMAIN data
            THEN defaults[key]
            ELSE IF key \in DictDefaults
            THEN [subkey \in DOMAIN data[key] \cup DOMAIN defaults[key] |->
                     IF subkey \notin DOMAIN data[key]
                     THEN defaults[key][subkey]
                     ELSE data[key][subkey]]
            ELSE data[key]]

\* no preference file exists
NoFile == [exists |-> FALSE]

StoredFile(text) == [exists |-> TRUE, text |-> text]

\* _load_prefs
_load_prefs(file) ==
    IF file.exists
    THEN _ensure_defaults(json_load(file.text))
    ELSE DefaultPrefs

\* the document without some of its top-level keys and without some keys of
\* its dicts
Without(doc, keys, subkeys) ==
    [key \in DOMAIN doc \ keys |->
        IF \E p \in subkeys : p[1] = key
        THEN [subkey \in DOMAIN doc[key] \ {p[2] : p \in {q \in subkeys : q[1] = key}} |->
                 doc[key][subkey]]
        ELSE doc[key]]

\* a document an earlier run saved: a budget set, an alert switched off
EarlierDocument ==
    [DefaultPrefs EXCEPT
        !.budgets.monthly = SetKey(@, "food", 100),
        !.alert_settings.budget_alerts = FALSE]

\* the files found at start: none, the earlier document, and the earlier
\* document as written before some keys were introduced
FilesAtStart ==
    {NoFile} \cup
    {StoredFile(json_dump(Without(EarlierDocument, keys, subkeys))) :
        keys \in {{}, {"income"}, {"financial_health", "notifications"}},
        subkeys \in {{}, {<<"alert_settings", "anomaly_detection">>},
                     {<<"budgets", "daily">>, <<"context", "last_merchant">>}}}

\* the moment a call stamps on what it writes
Timestamp == "2024-01-01T00:00:00"

Today == "2024-01-01"

\* _save_prefs
_save_prefs(data) == StoredFile(json_dump(data))

\* the process starts again: UserPreferences(user_id) loads the file
Restart ==
    /\ prefs' = [prefs EXCEPT !.data = _load_prefs(prefs.file)]
    /\ report' = [fn |-> "_load_prefs", before |-> prefs.data]
    /\ UNCHANGED <<now, notPrefs>>

\* the sizes the buffers of the document are cut back to
HistoryLimit == 200

UsualAmountsLimit == 20

HealthHistoryLimit == 30

\* s[:n] in its place: the oldest entries kept
LastN_Oldest(s, n) == IF Len(s) > n THEN SubSeq(s, 1, n) ELSE s

\* s[-n:] applied when len(s) > n
LastN(s, n) == IF Len(s) > n THEN SubSeq(s, Len(s) - n + 1, Len(s)) ELSE s

\* update_health_score, up to the save
update_health_score(data, score, factors) ==
    [data EXCEPT
        !.financial_health.score = score,
        !.financial_health.last_calculated = Timestamp,
        !.financial_health.history =
            LastN(Append(@, [score |-> score, date |-> Today,
                             factors |-> factors]),
                  HealthHistoryLimit)]

\* update_health_score
UpdateHealthScore ==
    /\ Len(prefs.data.financial_health.history) < MaxScores
    /\ \E score \in {40, 70}, factors \in HealthFactors :
          LET data == update_health_score(prefs.data, score, factors)
          IN  prefs' = [data |-> data, file |-> _save_prefs(data)]
    /\ report' = [fn |-> "update_health_score"]
    /\ UNCHANGED <<now, notPrefs>>

\* set_budget
SetBudget ==
    /\ \E category \in {"food", "rent"}, amount \in {100, 200} :
          LET data == [prefs.data EXCEPT
                          !.budgets.monthly = SetKey(@, category, amount)]
          IN  prefs' = [data |-> data, file |-> _save_prefs(data)]
    /\ report' = [fn |-> "set_budget"]
    /\ UNCHANGED <<now, notPrefs>>

\* toggle_alert
ToggleAlert ==
    /\ \E alert_type \in {"budget_alerts", "anomaly_detection"},
          enabled \in BOOLEAN :
          LET data == [prefs.data EXCEPT
                          !.alert_settings = SetKey(@, alert_type, enabled)]
          IN  prefs' = [data |-> data, file |-> _save_prefs(data)]
    /\ report' = [fn |-> "toggle_alert"]
    /\ UNCHANGED <<now, notPrefs>>

\* The bot starts with whatever preference file it finds; documents are
\* changed and saved, and the process restarts now and then.
InitReload ==
    /\ transactions = <<>>
    /\ lending = <<>>
    /\ last = NoCall
    /\ tasks = <<>>
    /\ now = Clock(1, TRUE)
    /\ history = <<>>
    /\ report = NoReport
    /\ AiIdle
    /\ ChatIdle
    /\ \E file \in FilesAtStart :
          prefs = [data |-> _load_prefs(file), file |-> file]

NextReload ==
    \/ Restart
    \/ UpdateHealthScore
    \/ SetBudget
    \/ ToggleAlert

SpecReload == InitReload /\ [][NextReload]_vars

\* the loaded document holds every key of the stored one with its stored
\* value and every other key of the defaults with its default
FilledFrom(stored, loaded) ==
    /\ DOMAIN loaded = DOMAIN stored \cup DOMAIN DefaultPrefs
    /\ \A key \in DOMAIN loaded :
          IF key \notin DOMAIN stored
          THEN loaded[key] = DefaultPrefs[key]
          ELSE IF key \in DictDefaults
          THEN /\ DOMAIN loaded[key] =
                      DOMAIN stored[key] \cup DOMAIN DefaultPrefs[key]
               /\ \A subkey \in DOMAIN loaded[key] :
                      loaded[key][subkey] =
                          IF subkey \in DOMAIN stored[key]
                          THEN stored[key][subkey]
                          ELSE DefaultPrefs[key][subkey]
          ELSE loaded[key] = stored[key]

\* C21: when the preference document is loaded, a file that was saved from
\* the document in memory gives back an equal document, and a file that lacks
\* top-level keys or keys of a nested dict gives the stored values with
\* exactly the missing keys filled from the defaults.
ReloadRoundTrip ==
    (report.fn = "_load_prefs" /\ prefs.file.exists) =>
        /\ prefs.file = _save_prefs(report.before) => prefs.data = report.before
        /\ FilledFrom(json_load(prefs.file.text), prefs.data)

(* ================= the buffers of the preference document ============= *)

\* most calls of each kind made once a buffer is one short of its limit
MaxCalls == 2

RECURSIVE SumOf(_)
SumOf(amounts) ==
    IF amounts = <<>> THEN 0 ELSE Head(amounts) + SumOf(Tail(amounts))

\* _update_usual_amount
_update_usual_amount(data, category, amount) ==
    IF category \notin DOMAIN data.usual_amounts
    THEN [data EXCEPT !.usual_amounts =
             SetKey(@, category, [amounts |-> <<amount>>,
                                  average |-> Frac(amount, 1)])]
    ELSE LET amounts == LastN(Append(data.usual_amounts[category].amounts, amount),
                              UsualAmountsLimit)
         IN  [data EXCEPT !.usual_amounts =
                 SetKey(@, category, [amounts |-> amounts,
                                      average |-> Frac(SumOf(amounts),
                                                       Len(amounts))])]

\* the entry add_to_history appends
HistoryEntry(description, category, amount, merchant, wallet) ==
    [desc |-> description, cat |-> category, amt |-> amount,
     merchant |-> merchant, wallet |-> wallet, time |-> Timestamp]

\* add_to_history, up to the save
add_to_history(data, description, category, amount, merchant, wallet) ==
    _update_usual_amount(
        [data EXCEPT !.transaction_history =
            LastN(Append(@, HistoryEntry(description, category, amount,
                                         merchant, wallet)),
                  HistoryLimit)],
        category, amount)

\* add_to_history.  The calls that fill the buffer up to one short of its
\* limit are one fixed run of food expenses, the n-th of amount n; the calls
\* from there on take any category and amount.  report keeps every entry
\* ever passed in.
AddToHistory ==
    /\ Len(report.entries) < HistoryLimit - 1 + MaxCalls
    /\ \E category \in {"food", "rent"}, amount \in {1, 2, Len(report.entries) + 1} :
          /\ IF Len(report.entries) < HistoryLimit - 1
             THEN category = "food" /\ amount = Len(report.entries) + 1
             ELSE amount \in {1, 2}
          /\ LET data == add_to_history(prefs.data, "tea", category, amount,
                                        "", "wallet")
             IN  /\ prefs' = [data |-> data, file |-> _save_prefs(data)]
                 /\ report' = [report EXCEPT
                                  !.fn = "add_to_history",
                                  !.entries = Append(@, HistoryEntry(
                                      "tea", category, amount, "", "wallet"))]
    /\ UNCHANGED <<now, notPrefs>>

\* update_health_score.  The calls that fill the history up to one short of
\* its limit are one fixed run, the n-th with score n; the calls from there
\* on take any score.  report keeps every score entry ever passed in.
UpdateHealthScoreAgain ==
    /\ Len(report.scores) < HealthHistoryLimit - 1 + MaxCalls
    /\ \E score \in {40, 70, Len(report.scores) + 1} :
          /\ IF Len(report.scores) < HealthHistoryLimit - 1
             THEN score = Len(report.scores) + 1
             ELSE score \in {40, 70}
          /\ LET data == update_health_score(prefs.data, score, <<>>)
             IN  /\ prefs' = [data |-> data, file |-> _save_prefs(data)]
                 /\ report' = [report EXCEPT
                                  !.fn = "update_health_score",
                                  !.scores = Append(@, [score |-> score,
                                                        date |-> Today,
                                                        factors |-> <<>>])]
    /\ UNCHANGED <<now, notPrefs>>

\* A fresh preference document.
InitBuffers ==
    /\ transactions = <<>>
    /\ lending = <<>>
    /\ last = NoCall
    /\ tasks = <<>>
    /\ now = Clock(1, TRUE)
    /\ history = <<>>
    /\ AiIdle
    /\ ChatIdle
    /\ prefs = [data |-> DefaultPrefs, file |-> NoFile]
    /\ report = [fn |-> "none", entries |-> <<>>, scores |-> <<>>]

NextBuffers ==
    \/ AddToHistory
    \/ UpdateHealthScoreAgain

SpecBuffers == InitBuffers /\ [][NextBuffers]_vars

\* the last n of a sequence, all of it when it is shorter
MostRecent(s, n) ==
    SubSeq(s, (IF Len(s) > n THEN Len(s) - n ELSE 0) + 1, Len(s))

\* the amounts passed in for a category, oldest first
AmountsFor(category) ==
    LET of == SelectSeq(report.entries, LAMBDA e : e.cat = category)
    IN  [i \in 1 .. Len(of) |-> of[i].amt]

\* C22: after any sequence of add_to_history and update_health_score calls
\* the transaction history is the most recent 200 entries passed in, each
\* category's sample list the most recent 20 amounts passed in for it, and
\* the health-score history the most recent 30 score entries, each in the
\* order of insertion.
BoundedBuffers ==
    /\ Len(prefs.data.transaction_history) <= 200
    /\ prefs.data.transaction_history = MostRecent(report.entries, 200)
    /\ \A category \in DOMAIN prefs.data.usual_amounts :
          /\ Len(prefs.data.usual_amounts[category].amounts) <= 20
          /\ prefs.data.usual_amounts[category].amounts =
                 MostRecent(AmountsFor(category), 20)
    /\ \A e \in {report.entries[i] : i \in 1 .. Len(report.entries)} :
          e.cat \in DOMAIN prefs.data.usual_amounts
    /\ Len(prefs.data.financial_health.history) <= 30
    /\ prefs.data.financial_health.history = MostRecent(report.scores, 30)

\* every buffer has dropped its oldest entry
BoundedBuffersWitness ==
    /\ Len(report.entries) > 200
    /\ Len(prefs.data.transaction_history) = 200
    /\ Len(AmountsFor("food")) > 20
    /\ Len(prefs.data.usual_amounts["food"].amounts) = 20
    /\ "rent" \in DOMAIN prefs.data.usual_amounts
    /\ Len(report.scores) > 30
    /\ Len(prefs.data.financial_health.history) = 30

(* ========================= the month comparison ====================== *)

\* the 15th of the January
JanuaryDay == 199

\* debits and credits dated today, on the 1st of this month, on the last,
\* the 15th and the 1st day of the month before, and on the last day of the
\* month before that
MonthRecords(clock) ==
    LET first == MonthStart(clock).day
        before == MonthFirstDay(MonthOf(clock.day) - 1)
    IN  {Record(<<d>>, type, "wallet", <<amount>>, "food") :
            d \in {clock.day, first, first - 1, before + 14, before, before - 1},
            type \in TransactionTypes,
            amount \in {100, 250}}

InitMonth ==
    /\ transactions = <<>>
    /\ lending = <<>>
    /\ last = NoCall
    /\ tasks = <<>>
    /\ now \in {Clock(day, midnight) :
                    day \in {TenthDay, JanuaryDay}, midnight \in BOOLEAN}
    /\ history = <<>>
    /\ report = NoReport
    /\ AiIdle
    /\ ChatIdle
    /\ PrefsIdle

NextMonth ==
    \/ AppendRecord(MonthRecords(now))
    \/ ComparePeriods

SpecMonth == InitMonth /\ [][NextMonth]_vars

\* the debits of the worksheet dated in month m of the calendar
DebitsOfMonth(m) ==
    SumAmounts(SelectSeq(history, LAMBDA t :
        t.type = "subtract" /\ MonthOf(DateOf(t)) = m))

\* C23: compare_periods(transactions, 'month') returns as current_total the
\* debits dated in the current calendar month and as previous_total the
\* debits dated in the calendar month before it (the December when the
\* current month is January), with difference = current_total -
\* previous_total and saved true exactly when difference < 0.
MonthComparison ==
    (report.fn = "compare_periods" /\ report.period = "month") =>
        /\ ~report.out.raised
        /\ report.out.current_total = DebitsOfMonth(MonthOf(now.day))
        /\ report.out.previous_total = DebitsOfMonth(MonthOf(now.day) - 1)
        /\ report.out.difference =
               report.out.current_total - report.out.previous_total
        /\ report.out.saved = (report.out.difference < 0)

(* ========================== the conversation ========================= *)

\* A text message, by what the handlers test on it: kind names its wording,
\* amount is the number written in it and person the name written in it.
\*   "number"        "2"                   float(text) reads it
\*   "name"          "Amit"
\*   "received from" "Received 2 from Amit"
\*   "returned by"   "2 returned by Amit"
\*   "lent to"       "Lent 2 to Amit"
\*   "goal details"  "savings 2 trip"
\* No text of the model is a menu label, starts with 'set alias' or holds
\* a query word or the word 'transfer'.
Text(kind, amount, person) == [kind |-> kind, amount |-> amount, person |-> person]

\* replies to a prompt: the numbers -1, 0 and 1, and a name
TypedNumbers == {Text("number", n, "") : n \in (0 - 1) .. 1}

TypedNames == {Text("name", 0, "Amit")}

\* free text about a loan of 1 or a repayment of 1
LoanTexts ==
    {Text(kind, 1, "Amit") : kind \in {"received from", "returned by", "lent to"}}

\* the reply the goal prompt asks for
GoalTexts == {Text("goal details", 1, "")}

\* the words of handle_natural_language's keyword lists that occur in
\* text.lower()
TextKeywords(text) ==
    CASE text.kind = "received from" -> {"received"}
      [] text.kind = "returned by"   -> {"returned"}
      [] text.kind = "lent to"       -> {"lent"}
      [] OTHER                       -> {}

ExpenseKeywords == {"spent", "paid", "bought", "subtract", "sub", "expense"}

IncomeKeywords == {"add", "received", "income", "salary", "got"}

LendingKeywords == {"lent", "lend", "gave", "loan"}

ReturnKeywords == {"returned", "paid back", "got back"}

\* float(text) raises ValueError
NotANumber(text) == text.kind # "number"

\* re.search(r'(?:from|by)\s+(\w+)', text.lower()), .title() applied;
\* "None" when there is no match
ReturnPersonOf(text) ==
    IF text.kind \in {"received from", "returned by"} THEN text.person ELSE "None"

\* re.search(r'(?:to|gave)\s+(\w+)', text.lower()), .title() applied
LendPersonOf(text) ==
    IF text.kind = "lent to" THEN text.person ELSE "Unknown"

\* len(text.split(None, 3)) >= 3
ThreeParts(text) ==
    text.kind \in {"received from", "returned by", "lent to", "goal details"}

\* float(parts[1]) raises: the second word is not a number
SecondPartNotANumber(text) == text.kind = "returned by"

\* parts[0]
FirstPart(text) ==
    CASE text.kind = "received from" -> "received"
      [] text.kind = "lent to"       -> "lent"
      [] OTHER                       -> "savings"

\* callback data, split at '_'
WalletButtons == {<<"add", "total">>, <<"subtract", "wallet">>}

\* the buttons whose flow asks for an amount
AmountButtons ==
    {<<"subtract", "wallet">>, <<"transfer", "total", "wallet">>,
     <<"lend", "money">>}

RepaymentButtons == {<<"money", "returned">>}

GoalButtons == {<<"add", "goal">>}

\* context.user_data.get(key, default)
Get(user_data, key, default) ==
    IF key \in DOMAIN user_data THEN user_data[key] ELSE default

\* what the handlers work on, and what one of them leaves: the branch that
\* took the update and the reply it sent
Dialog(user_data, txs, records, goals) ==
    [user_data |-> user_data, transactions |-> txs, lending |-> records,
     goals |-> goals]

Outcome(d, route, reply) == [after |-> d, route |-> route, reply |-> reply]

\* button_callback, the branches in the order of the if/elif chain
button_callback(d, data) ==
    IF data[1] = "transfer"
    THEN Outcome([d EXCEPT !.user_data =
                     SetKey(SetKey(SetKey(@, "transfer_from", data[2]),
                                   "transfer_to", data[3]),
                            "waiting_for", "transfer_amount")],
                 "transfer", "enter amount")
    ELSE IF data[1] \in {"add", "subtract"}
    THEN Outcome([d EXCEPT !.user_data =
                     SetKey(SetKey(SetKey(@, "action", data[1]),
                                   "category", data[2]),
                            "waiting_for", "amount")],
                 "add or subtract", "enter amount")
    ELSE IF data = <<"lend", "money">>
    THEN Outcome([d EXCEPT !.user_data =
                     SetKey(SetKey(@, "action", "lend"),
                            "waiting_for", "person_name")],
                 "lend_money", "enter name")
    ELSE IF data = <<"money", "returned">>
    THEN Outcome([d EXCEPT !.user_data =
                     SetKey(SetKey(@, "action", "return"),
                            "waiting_for", "return_person")],
                 "money_returned", "enter name")
    ELSE IF data = <<"add", "goal">>
    THEN Outcome([d EXCEPT !.user_data = SetKey(@, "waiting_for", "goal_details")],
                 "add_goal", "enter goal")
    ELSE Outcome(d, "none", "")

\* return_lending on the two worksheets
return_lending(d, person, amount, return_to) ==
    LET out == Allocate(d.lending, 1, amount, person, return_to)
    IN  IF SomeApplied(out.remaining_to_apply, amount)
        THEN [ok |-> TRUE,
              after |-> [d EXCEPT
                  !.lending = out.records,
                  !.transactions = add_transaction(@, "add", return_to,
                                       amount - out.remaining_to_apply, "lending")]]
        ELSE [ok |-> FALSE, after |-> [d EXCEPT !.lending = out.records]]

\* handle_natural_language on a text that carries an amount the parse
\* extracts; wallet_type is the wallet the parse names
handle_natural_language(d, text, wallet_type) ==
    LET words == TextKeywords(text)
    IN  IF words \cap ExpenseKeywords # {}
        THEN Outcome([d EXCEPT !.transactions =
                         add_transaction(@, "subtract", wallet_type, text.amount,
                                         "other")],
                     "expense", "expense added")
        ELSE IF words \cap IncomeKeywords # {}
        THEN Outcome([d EXCEPT !.transactions =
                         add_transaction(@, "add", wallet_type, text.amount,
                                         "income")],
                     "income", "income added")
        ELSE IF words \cap LendingKeywords # {}
        THEN Outcome([d EXCEPT !.lending =
                         Append(@, LendingRow(LendPersonOf(text), text.amount))],
                     "lending", "lending recorded")
        ELSE IF words \cap ReturnKeywords # {}
        THEN IF ReturnPersonOf(text) = "None"
             THEN Outcome(d, "repayment", "specify who returned")
             ELSE LET r == return_lending(d, ReturnPersonOf(text), text.amount,
                                          "wallet")
                  IN  Outcome(r.after, "repayment",
                              IF r.ok THEN "payment received" ELSE "failed")
        ELSE Outcome(d, "not understood", "try")

\* handle_text_input; second is the clock reading add_goal makes the id from
handle_text_input(d, text, wallet_type, second) ==
    LET user_data == d.user_data
        cleared == [d EXCEPT !.user_data = EmptyDict]
    IN  IF "waiting_for" \notin DOMAIN user_data
        THEN handle_natural_language(d, text, wallet_type)
        ELSE CASE user_data["waiting_for"] = "transfer_amount" ->
                    IF NotANumber(text)
                    THEN Outcome(d, "transfer_amount", "enter a valid number")
                    ELSE LET from_wallet == Get(user_data, "transfer_from", "total")
                             to_wallet == Get(user_data, "transfer_to", "wallet")
                             out == TransferOutcome(
                                        get_current_balances(d.transactions),
                                        from_wallet, to_wallet, text.amount)
                         IN  IF out.ok
                             THEN Outcome([cleared EXCEPT !.transactions =
                                              Append(@, TransferRow(from_wallet,
                                                  to_wallet, text.amount, out.bal))],
                                          "transfer_amount", "transfer successful")
                             ELSE Outcome(cleared, "transfer_amount", "failed")
               [] user_data["waiting_for"] = "amount" ->
                    IF NotANumber(text)
                    THEN Outcome(d, "amount", "enter a valid number")
                    ELSE IF text.amount <= 0
                    THEN Outcome(d, "amount", "enter a positive amount")
                    ELSE Outcome([d EXCEPT !.user_data =
                                     SetKey(SetKey(@, "amount", text.amount),
                                            "waiting_for", "description")],
                                 "amount", "enter description")
               [] user_data["waiting_for"] = "description" ->
                    Outcome([cleared EXCEPT !.transactions =
                                add_transaction(@, Get(user_data, "action", "add"),
                                    Get(user_data, "category", "total"),
                                    Get(user_data, "amount", 0), "manual")],
                            "description", "transaction successful")
               [] user_data["waiting_for"] = "person_name" ->
                    Outcome([d EXCEPT !.user_data =
                                SetKey(SetKey(@, "person", text),
                                       "waiting_for", "lend_amount")],
                            "person_name", "enter amount")
               [] user_data["waiting_for"] = "lend_amount" ->
                    IF NotANumber(text)
                    THEN Outcome(d, "lend_amount", "enter a valid amount")
                    ELSE Outcome([d EXCEPT !.user_data =
                                     SetKey(SetKey(@, "lend_amount", text.amount),
                                            "waiting_for", "lend_description")],
                                 "lend_amount", "enter description")
               [] user_data["waiting_for"] = "lend_description" ->
                    Outcome([cleared EXCEPT !.lending =
                                Append(@, LendingRow(user_data["person"].person,
                                                     user_data["lend_amount"]))],
                            "lend_description", "lending recorded")
               [] user_data["waiting_for"] = "return_person" ->
                    Outcome([d EXCEPT !.user_data =
                                SetKey(SetKey(@, "return_person", text),
                                       "waiting_for", "return_amount")],
                            "return_person", "enter amount")
               [] user_data["waiting_for"] = "return_amount" ->
                    IF NotANumber(text)
                    THEN Outcome(d, "return_amount", "enter a valid amount")
                    ELSE LET r == return_lending(cleared,
                                      user_data["return_person"].person,
                                      text.amount, "wallet")
                         IN  Outcome(r.after, "return_amount",
                                     IF r.ok THEN "payment received" ELSE "failed")
               [] user_data["waiting_for"] = "goal_details" ->
                    IF ~ThreeParts(text)
                    THEN Outcome(cleared, "goal_details", "invalid format")
                    ELSE IF SecondPartNotANumber(text)
                    THEN Outcome(cleared, "goal_details", "error")
                    ELSE Outcome([cleared EXCEPT !.goals =
                                     Append(@, Goal(second, FirstPart(text),
                                                    text.amount))],
                                 "goal_details", "goal added")

\* an update of the conversation: what arrived, the button that opened the
\* flow in progress, and what the handler did
Turn(user_data, event, opened_by, route, reply) ==
    [user_data |-> user_data, event |-> event, opened_by |-> opened_by,
     route |-> route, reply |-> reply]

NoEvent == [is |-> "none"]

ButtonPressed(data) == [is |-> "button", data |-> data]

TextSent(text) == [is |-> "text", text |-> text]

\* the rows and goals one conversation may write in the model
DialogHasRoom(d) ==
    /\ Len(d.transactions) + Len(d.lending) <= MaxTx
    /\ Len(d.goals) <= MaxGoals

\* the state the conversation leaves alone
notDialog == <<last, tasks, history, report, ai, now>>

\* the user presses an inline button, one of Buttons
PressButton(Buttons) ==
    /\ \E data \in Buttons :
          LET out == button_callback(
                         Dialog(chat.user_data, transactions, lending, prefs.goals),
                         data)
          IN  chat' = Turn(out.after.user_data, ButtonPressed(data), data,
                           out.route, out.reply)
    /\ UNCHANGED <<transactions, lending, prefs, notDialog>>

\* the user sends a text, one of Texts
SendText(Texts) ==
    /\ \E text \in Texts, wallet_type \in Wallets :
          LET out == handle_text_input(
                         Dialog(chat.user_data, transactions, lending, prefs.goals),
                         text, wallet_type, GoalId(now))
          IN  /\ DialogHasRoom(out.after)
              /\ transactions' = out.after.transactions
              /\ lending' = out.after.lending
              /\ prefs' = [prefs EXCEPT !.goals = out.after.goals]
              /\ chat' = Turn(out.after.user_data, TextSent(text), chat.opened_by,
                              out.route, out.reply)
    /\ UNCHANGED notDialog

\* One user's conversation with the bot from its start, on empty worksheets
\* and a document without goals.
InitDialog ==
    /\ transactions = <<>>
    /\ lending = <<>>
    /\ last = NoCall
    /\ tasks = <<>>
    /\ now = [second |-> 0]
    /\ history = <<>>
    /\ report = NoReport
    /\ AiIdle
    /\ chat = Turn(EmptyDict, NoEvent, <<>>, "none", "")
    /\ prefs = [goals |-> <<>>]

(* --------------------- repayments told in free text ------------------- *)

\* Loans told in free text; repayments through the Money Returned button
\* and in free text.
NextRepay ==
    \/ PressButton(RepaymentButtons)
    \/ SendText(LoanTexts \cup TypedNames \cup {Text("number", 1, "")})

SpecRepay == InitDialog /\ [][NextRepay]_vars

\* C24: a text 'Received X from <person>', sent when no input is awaited and
\* the person has outstanding loans, is taken by the repayment handler and
\* brings down what the person owes; it is not recorded as income.
ReceivedFromRepays ==
    [][(/\ chat'.event \in {TextSent(t) : t \in LoanTexts}
        /\ chat'.event.text.kind = "received from"
        /\ "waiting_for" \notin DOMAIN chat.user_data
        /\ get_pending_lending_for_person(lending, chat'.event.text.person) > 0)
       => /\ chat'.route = "repayment"
          /\ get_pending_lending_for_person(lending', chat'.event.text.person)
                < get_pending_lending_for_person(lending, chat'.event.text.person)
          /\ \/ Len(transactions') = Len(transactions)
             \/ transactions'[Len(transactions')].category # "income"]_vars

(* --------------------------- the goal button -------------------------- *)

\* The Add Goal button beside the wallet buttons, and the replies to their
\* prompts.
NextGoalButton ==
    \/ PressButton(GoalButtons \cup {<<"add", "total">>})
    \/ SendText(TypedNumbers \cup TypedNames \cup GoalTexts)

SpecGoalButton == InitDialog /\ [][NextGoalButton]_vars

\* C25: pressing 'Add Goal' puts the conversation into waiting_for =
\* 'goal_details', so that the next text is taken as goal details and stored
\* with add_goal when it has the form 'type target description'; the
\* conversation the button opened appends no transaction row.
AddGoalButtonOpensGoalFlow ==
    [][/\ chat'.event = ButtonPressed(<<"add", "goal">>)
            => /\ "waiting_for" \in DOMAIN chat'.user_data
               /\ chat'.user_data["waiting_for"] = "goal_details"
       /\ (/\ chat.event = ButtonPressed(<<"add", "goal">>)
           /\ chat'.event \in {TextSent(t) : t \in GoalTexts})
            => /\ chat'.route = "goal_details"
               /\ Len(prefs'.goals) = Len(prefs.goals) + 1
       /\ (/\ chat.opened_by = <<"add", "goal">>
           /\ "waiting_for" \in DOMAIN chat.user_data
           /\ chat'.event \notin {ButtonPressed(b) : b \in WalletButtons})
            => transactions' = transactions]_vars

(* ------------------------ amounts typed on prompts -------------------- *)

\* The wallet, transfer and lending buttons, and the replies to their
\* prompts.
NextAmounts ==
    \/ PressButton(AmountButtons)
    \/ SendText(TypedNumbers \cup TypedNames)

SpecAmounts == InitDialog /\ [][NextAmounts]_vars

\* C26: a reply that reads as a number <= 0 while an amount, a transfer
\* amount or a loan amount is awaited is rejected, changing neither worksheet
\* and ending nowhere further in the flow; no row of either worksheet has an
\* amount <= 0.
NoNonPositiveAmounts ==
    [][/\ (/\ "waiting_for" \in DOMAIN chat.user_data
           /\ chat.user_data["waiting_for"]
                  \in {"amount", "transfer_amount", "lend_amount"}
           /\ chat'.event \in {TextSent(t) : t \in TypedNumbers}
           /\ chat'.event.text.amount <= 0)
            => /\ transactions' = transactions
               /\ lending' = lending
               /\ chat'.user_data = chat.user_data
       /\ \A i \in 1 .. Len(transactions') : transactions'[i].amount > 0
       /\ \A i \in 1 .. Len(lending') : lending'[i].amount > 0]_vars

(* ========================= lending statistics ======================== *)

RECURSIVE SumLoans(_)
\* sum(float(r['amount']) for r in rows)
SumLoans(rows) ==
    IF rows = <<>> THEN 0 ELSE Head(rows).amount + SumLoans(Tail(rows))

RECURSIVE FirstSeen(_, _)
\* the keys of person_totals in the order they were first inserted
FirstSeen(rows, seen) ==
    IF rows = <<>> THEN <<>>
    ELSE IF Head(rows).person \in seen
    THEN FirstSeen(Tail(rows), seen)
    ELSE <<Head(rows).person>> \o FirstSeen(Tail(rows), seen \cup {Head(rows).person})

RECURSIVE SortedByAmount(_)
\* sorted(entries, key=lambda x: x['amount'], reverse=True): the greatest
\* amount first, equal amounts in their given order
SortedByAmount(entries) ==
    IF entries = <<>> THEN <<>>
    ELSE LET i == CHOOSE i \in 1 .. Len(entries) :
                     /\ \A j \in 1 .. Len(entries) : entries[j].amount <= entries[i].amount
                     /\ \A j \in 1 .. (i - 1) : entries[j].amount < entries[i].amount
         IN  <<entries[i]>> \o
             SortedByAmount(SubSeq(entries, 1, i - 1) \o
                            SubSeq(entries, i + 1, Len(entries)))

\* analyze_lending; every loan of the model is returned on the day it was
\* made, so each entry of return_times is 0
analyze_lending(lending_records) ==
    LET lent == SelectSeq(lending_records, LAMBDA r : r.status = "lent")
        returned == SelectSeq(lending_records, LAMBDA r : r.status = "returned")
        total_lent == SumLoans(lent)
        total_returned == SumLoans(returned)
        persons == FirstSeen(lent, {})
        person_totals == [i \in 1 .. Len(persons) |->
                             [person |-> persons[i],
                              amount |-> SumLoans(SelectSeq(lent, LAMBDA r :
                                             r.person = persons[i]))]]
        pending_persons == SelectSeq(person_totals, LAMBDA e : e.amount > 0)
    IN  IF lending_records = <<>>
        THEN [total_lent |-> 0, total_returned |-> 0, pending |-> 0,
              avg_amount |-> Frac(0, 1), avg_return_days |-> Frac(0, 1),
              pending_persons |-> <<>>]
        ELSE [total_lent      |-> total_lent,
              total_returned  |-> total_returned,
              pending         |-> total_lent - total_returned,
              avg_amount      |-> Frac(SumLoans(lending_records),
                                       Len(lending_records)),
              avg_return_days |-> Frac(0, 1),
              pending_persons |-> SortedByAmount(pending_persons)]

\* the lending statistics are asked for; records is the worksheet they were
\* computed from
AnalyzeLending ==
    /\ report' = [fn |-> "analyze_lending", records |-> lending,
                  out |-> analyze_lending(lending)]
    /\ UNCHANGED <<now, history, transactions, lending, last, tasks, ai, chat, prefs>>

\* Loans made and repaid, and the statistics asked for at any point.
NextLendingStats ==
    \/ AddLending
    \/ ReturnLending
    \/ AnalyzeLending

SpecLendingStats == InitLending /\ [][NextLendingStats]_vars

RECURSIVE SumRemaining(_)
\* the sum of remaining over the rows that are lent or partial
SumRemaining(rows) ==
    IF rows = <<>> THEN 0
    ELSE (IF Head(rows).status \in {"lent", "partial"} THEN Head(rows).remaining
          ELSE 0) + SumRemaining(Tail(rows))

\* C27: the pending value analyze_lending returns is the sum of remaining
\* over the rows with status lent or partial, is never negative, and
\* pending_persons names every person who still owes something.
LendingStatsAgree ==
    report.fn = "analyze_lending" =>
        /\ report.out.pending = SumRemaining(report.records)
        /\ report.out.pending >= 0
        /\ \A p \in LendPersons :
              get_pending_lending_for_person(report.records, p) > 0
                 => \E i \in 1 .. Len(report.out.pending_persons) :
                       Lower(report.out.pending_persons[i].person) = Lower(p)

(* =================== repayments on a store that fails ================= *)

\* the store calls one return_lending can make: get_all_records, four
\* update_cell per row, and add_transaction's get_all_records and append_row
MaxStoreCalls == 1 + 4 * MaxLoans + 2

\* the update_cell calls of the full-payment branch, in order
FullUpdates(return_to) ==
    <<<<"status", "returned">>, <<"return_date", "today">>,
      <<"return_to", return_to>>, <<"remaining", 0>>>>

\* the update_cell calls of the partial-payment branch, in order
PartialUpdates(new_remaining) ==
    <<<<"status", "partial">>, <<"remaining", new_remaining>>>>

RECURSIVE UpdateCells(_, _, _)
\* the row after the first k of the update_cell calls
UpdateCells(record, updates, k) ==
    IF k = 0 THEN record
    ELSE [UpdateCells(record, updates, k - 1) EXCEPT
             ![updates[k][1]] = updates[k][2]]

RECURSIVE AllocateOnStore(_, _, _, _, _, _, _)
\* return_lending's loop from row i on, on a store whose call number
\* fails_at raises (0: none does); made counts the store calls made so far.
\* The loop ends with the rows as the calls that went through left them.
AllocateOnStore(records, i, remaining_to_apply, person, return_to, made, fails_at) ==
    IF i > Len(records) \/ remaining_to_apply <= 0
    THEN [records |-> records, remaining_to_apply |-> remaining_to_apply,
          raised |-> FALSE, made |-> made]
    ELSE IF ~Repayable(records[i], person)
    THEN AllocateOnStore(records, i + 1, remaining_to_apply, person, return_to,
                         made, fails_at)
    ELSE LET full == FullPayment(remaining_to_apply, records[i].remaining)
             updates == IF full THEN FullUpdates(return_to)
                        ELSE PartialUpdates(records[i].remaining - remaining_to_apply)
             left == IF full THEN remaining_to_apply - records[i].remaining ELSE 0
         IN  IF fails_at \in (made + 1) .. (made + Len(updates))
             THEN [records |-> [records EXCEPT
                                   ![i] = UpdateCells(@, updates, fails_at - made - 1)],
                   remaining_to_apply |-> left, raised |-> TRUE, made |-> fails_at]
             ELSE AllocateOnStore(
                      [records EXCEPT ![i] = UpdateCells(@, updates, Len(updates))],
                      i + 1, left, person, return_to, made + Len(updates), fails_at)

\* return_lending on such a store: what it returns and the two worksheets
\* after it.  add_transaction reads the balances as (0, 0) when its read
\* raises and appends nothing when its append raises, and raises neither.
return_lending_on_store(txs, records, person, amount, return_to, fails_at) ==
    IF fails_at = 1
    THEN [ok |-> FALSE, msg |-> "error", applied |-> 0,
          lending |-> records, transactions |-> txs]
    ELSE LET out == AllocateOnStore(records, 1, amount, person, return_to, 1, fails_at)
             applied == amount - out.remaining_to_apply
             bal == IF fails_at = out.made + 1 THEN <<0, 0>>
                    ELSE get_current_balances(txs)
             nb == NewBalances(bal, "add", return_to, applied)
             row == [type |-> "add", wallet_type |-> return_to, amount |-> applied,
                     balance_total |-> nb[1], balance_wallet |-> nb[2],
                     category |-> "lending"]
         IN  IF out.raised
             THEN [ok |-> FALSE, msg |-> "error", applied |-> 0,
                   lending |-> out.records, transactions |-> txs]
             ELSE IF SomeApplied(out.remaining_to_apply, amount)
             THEN [ok |-> TRUE, msg |-> "applied to loans", applied |-> applied,
                   lending |-> out.records,
                   transactions |-> IF fails_at = out.made + 2 THEN txs
                                    ELSE Append(txs, row)]
             ELSE [ok |-> FALSE, msg |-> "No pending loans found", applied |-> 0,
                   lending |-> out.records, transactions |-> txs]

\* return_lending while one call to the store may raise
ReturnLendingOnStore ==
    /\ UNCHANGED notEngine
    /\ \E person \in ReturnPersons, amount \in RepayAmounts,
          return_to \in ReturnTargets, fails_at \in 0 .. MaxStoreCalls :
          LET r == return_lending_on_store(transactions, lending, person, amount,
                                           return_to, fails_at)
          IN  /\ Len(r.transactions) <= MaxTx
              /\ lending' = r.lending
              /\ transactions' = r.transactions
              /\ last' = Call("return_lending", "", "", return_to, person, amount,
                              r.ok, r.msg, r.applied, <<0, 0>>)

\* Loans made on a working store, repayments on one that may fail.
NextStoreFailure ==
    \/ AddLending
    \/ ReturnLendingOnStore

SpecStoreFailure == InitLending /\ [][NextStoreFailure]_vars

\* C28: a return_lending call that reports failure, whatever the reason, has
\* changed no lending row and appended no transaction row; a call that closed
\* or reduced a loan has appended the matching credit transaction.
RepaymentAllOrNothing ==
    [][last'.op = "return_lending" =>
          /\ ~last'.ok => (lending' = lending /\ transactions' = transactions)
          /\ lending' # lending =>
                /\ Len(transactions') = Len(transactions) + 1
                /\ transactions'[Len(transactions')].type = "add"
                /\ transactions'[Len(transactions')].category = "lending"
                /\ transactions'[Len(transactions')].amount = last'.applied]_vars

(* ================================ undo ================================ *)

\* the balances the call recorded in last left behind, recomputed from bal:
\* they equal the recorded ones only when bal is what the call started from
Redo(bal) ==
    IF last.op = "add_transaction"
    THEN NewBalances(bal, last.kind, last.wallet, last.amount)
    ELSE TransferOutcome(bal, last.wallet, last.to, last.amount).bal

\* C29: undo_last_transaction on a non-empty ledger removes exactly the last
\* row, so the balances become the checkpoint of the row before it, or (0, 0)
\* when none is left; right after an add_transaction or a successful transfer
\* it brings back the balances that call started from; on an empty ledger it
\* fails with 'No transactions to undo' and changes nothing.
UndoRestores ==
    [][last'.op = "undo_last_transaction" =>
          IF transactions = <<>>
          THEN /\ ~last'.ok
               /\ last'.msg = "No transactions to undo"
               /\ transactions' = transactions
               /\ lending' = lending
          ELSE /\ last'.ok
               /\ transactions' = SubSeq(transactions, 1, Len(transactions) - 1)
               /\ lending' = lending
               /\ get_current_balances(transactions') =
                     IF Len(transactions) = 1 THEN <<0, 0>>
                     ELSE <<transactions[Len(transactions) - 1].balance_total,
                            transactions[Len(transactions) - 1].balance_wallet>>
               /\ (\/ last.op = "add_transaction"
                   \/ last.op = "transfer_between_wallets" /\ last.ok)
                  => Redo(get_current_balances(transactions')) =
                        <<last.ret_total, last.ret_wallet>>]_vars

\* an undo has just taken the newest of two rows away
UndoRestoresWitness ==
    /\ last.op = "undo_last_transaction"
    /\ last.ok
    /\ Len(transactions) = MaxTx - 1
    /\ get_current_balances(transactions) # <<0, 0>>

(* ============================ the Summary menu ======================== *)

\* predict_runout_date's default days_history
RunoutDays == 14

\* predict_runout_date: the dict it returns, key by key
predict_runout_date(clock, balance, txs, days_history) ==
    LET burn == get_burn_rate(clock, balance, txs, days_history)
        daily_burn == burn.daily_burn
        days_left == IntOf(balance * daily_burn.den, daily_burn.num)
    IN  IF burn.raised
        THEN Raised
        ELSE IF daily_burn.num <= 0
        THEN Returned([days_left   |-> NoBurnDaysLeft,
                       runout_date |-> "None",
                       daily_burn  |-> Frac(0, 1),
                       message     |-> "No significant spending detected"])
        ELSE Returned([days_left             |-> days_left,
                       runout_date           |-> clock.day + days_left,
                       runout_date_formatted |-> clock.day + days_left,
                       daily_burn            |-> daily_burn,
                       severity              |-> IF days_left < 7 THEN "critical"
                                                 ELSE IF days_left < 14 THEN "warning"
                                                 ELSE IF days_left < 30 THEN "moderate"
                                                 ELSE "good"])

\* the Runway line of the summary: runout['message'] is looked up only when
\* days_left is below 999, and the lookup raises KeyError on a dict without
\* that key
RunwayLine(runout) ==
    IF runout.days_left < NoBurnDaysLeft
    THEN IF "message" \in DOMAIN runout
         THEN Returned(runout.message)
         ELSE Raised
    ELSE Returned("You have a healthy runway")

\* the Summary branch of handle_menu on the transactions txs, the lending
\* rows and the wallet balance of the last row
SummaryMenu(clock, txs, lending_records, wallet_balance) ==
    IF txs = <<>>
    THEN [reply |-> "No data yet.", reads_message |-> FALSE]
    ELSE LET summary_data == get_income_expense_summary(clock, txs, SummaryDays)
             lending_stats == analyze_lending(lending_records)
             runout == predict_runout_date(clock, wallet_balance, txs, RunoutDays)
         IN  IF runout.raised
             THEN [reply |-> "raised", reads_message |-> FALSE]
             ELSE [reply         |-> IF RunwayLine(runout.value).raised
                                     THEN "raised" ELSE "summary",
                   reads_message |-> runout.value.days_left < NoBurnDaysLeft,
                   runout        |-> runout.value,
                   runway        |-> RunwayLine(runout.value),
                   income        |-> summary_data.income,
                   expenses      |-> summary_data.expenses,
                   pending       |-> lending_stats.pending]

\* debits and credits of both wallets dated today, two weeks ago to the day
\* and the day before that
SummaryRecords ==
    {Record(<<ReportDay - a>>, type, wallet_type, <<amount>>, "food") :
        a \in {0, RunoutDays, RunoutDays + 1},
        type \in TransactionTypes,
        wallet_type \in Wallets,
        amount \in {14, 28}}

\* wallet balances in the last row: overdrawn, empty, small and large
SummaryBalances == {0 - 10, 0, 10, 2000}

\* the user presses Summary
Summary ==
    /\ \E wallet_balance \in SummaryBalances :
          report' = [fn             |-> "summary",
                     wallet_balance |-> wallet_balance,
                     out            |-> SummaryMenu(now, history, lending,
                                                    wallet_balance)]
    /\ UNCHANGED notReport

NextSummary ==
    \/ AppendRecord(SummaryRecords)
    \/ Summary

SpecSummary == InitBurn /\ [][NextSummary]_vars

\* C30: on every non-empty ledger the Summary handler completes with a
\* summary reply: whenever it reads the 'message' field of the record
\* predict_runout_date returned (days_left below 999), the record has one.
SummaryCompletes ==
    (report.fn = "summary" /\ history # <<>>) =>
        /\ report.out.reply = "summary"
        /\ report.out.reads_message => "message" \in DOMAIN report.out.runout

====
